---- MODULE Spec2Model ----
(***************************************************************************)
(* CCPlayer: the playback pipeline.                                        *)
(*                                                                         *)
(*   - decoder/frame_queue.rs : FrameQueue (specification SpecFQ) and      *)
(*                              FrameTimingController (SpecFrameTiming)    *)
(*   - player/controller.rs   : PlayerController and its decode, audio and *)
(*                              render threads (Spec, FairSpec,            *)
(*                              ControlSpec, PlaybackSpec); its volume     *)
(*                              calls (SpecPlayerVolume)                   *)
(*   - audio/sync.rs          : AVSyncController (SpecSync), and under the *)
(*                              render loop of player/controller.rs        *)
(*                              (RenderSpec)                               *)
(*   - audio/cpal_output.rs   : CpalAudioOutput with its device callback   *)
(*                              (SpecAudioOutput, SpecAudioStates),        *)
(*                              VolumeControl (SpecVolumeControl),         *)
(*                              AudioClock (SpecAudioClock)                *)
(*   - audio/volume.rs        : VolumeRamp (SpecVolumeRamp) and            *)
(*                              VolumeController (SpecVolumeController,    *)
(*                              SpecVolumeRamping)                         *)
(*                                                                         *)
(* Every specification runs one component and leaves the others as they    *)
(* were constructed.                                                       *)
(***************************************************************************)
EXTENDS Integers, Sequences, FiniteSets, TLC

(***************************************************************************)
(* Bounds of the model.                                                    *)
(***************************************************************************)
\* FrameQueue: PTS values pushed are 0..MaxPts, frame sizes 1..MaxFrameSize,
\* max_frames is 0..MaxCap, max_size is 0..MaxBytes, and at most MaxPushes
\* push_frame calls are made on one queue.
MaxPts == 2
MaxFrameSize == 2
MaxCap == 2
MaxBytes == 3
MaxPushes == 4
\* FrameTimingController: should_present_frame and sync_to_clock are called
\* at most MaxTimingCalls times, on a controller made for TargetFps frames
\* per second.
MaxTimingCalls == 2
TargetFps == 60

\* PlayerController: a media file holds ShortFrames video frames (NumFrames
\* where playback runs undisturbed, FairFrames where the calls are checked
\* for progress) and, with an audio stream, as many audio batches; seek() is
\* called at most MaxSeeks times.  The decode loop's queue marks 25/30 and
\* 90/100 are scaled down to VideoSoft/VideoMax and AudioSoft/AudioMax.
NumFrames == 5
ShortFrames == 2
FairFrames == 1
MaxSeeks == 1
VideoSoft == 0
VideoMax == 1
AudioSoft == 0
AudioMax == 1

\* AVSyncController: sync errors within SyncSlack of every threshold.
SyncSlack == 2

\* CpalAudioOutput: 1..MaxChannels channels, a ring buffer of RingSize
\* samples per channel, callbacks of CallbackFrames frames, batches of at
\* most MaxSamples samples.
RingSize == 2
CallbackFrames == 1
MaxSamples == 3
MaxChannels == 2
\* The callback runs until it has counted MaxUnderruns underruns and played
\* MaxPlayed frames (stop() starts both counts again).
MaxUnderruns == 2
MaxPlayed == 2

\* VolumeControl: a ramp lasts RampSamples samples; set_target is called at
\* most MaxTargets times.  VolumeRamp: set_target is called at most
\* MaxRampTargets times.  AudioClock: update_samples is called at most
\* MaxUpdates times.
RampSamples == 4
MaxTargets == 2
MaxRampTargets == 1
MaxUpdates == 3

\* AVSyncController on its own: should_display_frame is called until
\* MaxDrops frames are dropped (reset_stats starts the count again).  The
\* render loop on its own is given at most MaxRenderFrames frames.
MaxDrops == 2
MaxRenderFrames == 2
\* PlayerController: set_volume and toggle_mute are called at most
\* MaxVolumeCalls times.
MaxVolumeCalls == 3

\* audio/sync.rs
MAX_SYNC_DEVIATION_US == 40000
SYNC_TARGET_US == 1000
\* Duration of one frame of the media (60 fps)
FrameDuration == 16667
\* audio/volume.rs: the ramp of test_volume_ramp and the number of values it
\* takes; the duration of a new ramp
TEST_RAMP_DURATION == 10
TEST_RAMP_VALUES == 10
DEFAULT_RAMP_DURATION == 2048
\* audio/cpal_output.rs: AudioClock
MICROS_PER_SECOND == 1000000
DEFAULT_SAMPLE_RATE == 48000

None == "None"
\* no audio batch in hand
NoPts == -1
\* let frame: Option<VideoFrame> = None
NoFrame == [pts |-> NoPts, epoch |-> 0]

VARIABLES
    \* ---- decoder/frame_queue.rs: struct FrameQueue ----
    fq,             \* the FrameQueue: frames, max_frames, total_size, max_size,
                    \* last_pts and the stats counters
    fq_pushed,      \* history (SpecFQPush): PTS -> number of frames pushed with it
    fq_bytes,       \* history (SpecFQPush): sum of the sizes of all frames pushed
    fq_inorder,     \* history (SpecFQPush): every push had a PTS >= all earlier
    \* ---- decoder/frame_queue.rs: struct FrameTimingController ----
    ftc,            \* the controller, the wall time and the last decision

    \* ---- player/controller.rs: struct PlayerState (behind the RwLock) ----
    state,          \* PlaybackState
    media_info,     \* None, or the media loaded
    position_us,
    \* ---- player/controller.rs: struct PlayerController ----
    running,        \* AtomicBool
    paused,         \* AtomicBool
    video_queue,    \* VecDeque<VideoFrame>: frames [pts, epoch]
    audio_queue,    \* VecDeque<AudioSamples>: batches [pts, epoch]
    threads,        \* decoder_thread, audio_thread, render_thread: is the
                    \* JoinHandle Some?
    decoder,        \* the Decoder: media, cursor, eof; epoch counts its seeks
    master_pts,     \* av_sync: MasterClock.current_pts
    \* ---- the three worker threads ----
    dpc, d_vok, d_aok,      \* decoder thread: position, and the two queue
                            \* size tests it made
    apc, a_pts,             \* audio thread: position, the batch it popped
    rpc, r_frame, r_action, \* render thread: position, the frame it peeked,
                            \* the sync decision
    \* ---- the thread that calls the Player methods ----
    cpc,            \* "idle", or the step of the call in progress
    cmd,            \* the call in progress; when idle, the last one returned
    cres,           \* the result of the last call returned: "ok" / "err"
    carg,           \* seek(): the target position
    cfrom,          \* stop(): what the player was like when it was called;
                    \* seek(): the state when it was called
    \* ---- AVSyncController on its own (audio/sync.rs) ----
    sync,           \* the master clock, the video clock and the last frame
                    \* decision
    \* ---- render_thread_fn on its own (player/controller.rs) ----
    ren,            \* the render loop, its queue and its counters
    \* ---- CpalAudioOutput on its own (audio/cpal_output.rs) ----
    ao,             \* the output, its ring buffer and its device callback
    vc,             \* its VolumeControl: the gain applied by the callback
    \* ---- audio/volume.rs ----
    vr,             \* a VolumeRamp and the values it has returned
    clk,            \* an AudioClock (audio/cpal_output.rs)
    vol,            \* a VolumeController (audio/volume.rs)
    \* ---- PlayerController's volume calls on their own ----
    pv              \* PlayerState.volume and .muted, and the volume last
                    \* given to the audio output

fqvars == <<fq, fq_pushed, fq_bytes, fq_inorder, ftc>>

fqhist == <<fq_pushed, fq_bytes, fq_inorder>>

pstate == <<state, media_info, position_us>>
flags == <<running, paused>>
queues == <<video_queue, audio_queue>>
dvars == <<dpc, d_vok, d_aok>>
avars == <<apc, a_pts>>
rvars == <<rpc, r_frame, r_action>>
cvars == <<cpc, cmd, cres, carg, cfrom>>

ctlvars == <<state, media_info, position_us, running, paused, video_queue,
             audio_queue, threads, decoder, master_pts,
             dpc, d_vok, d_aok, apc, a_pts, rpc, r_frame, r_action,
             cpc, cmd, cres, carg, cfrom>>

audiovars == <<sync, ren, ao, vc, vr, clk, vol, pv>>
vars == <<fqvars, ctlvars, audiovars>>

(***************************************************************************)
(* decoder/frame_queue.rs: FrameQueue                                      *)
(***************************************************************************)
PtsValues == 0..MaxPts
FrameSizes == 1..MaxFrameSize
TestFrames == [pts : PtsValues, size : FrameSizes]

\* usize::saturating_sub
saturating_sub(a, b) == IF a >= b THEN a - b ELSE 0

\* estimate_frame_size: the summed lengths of the frame's planes; a frame of
\* the model carries that sum as its size.
estimate_frame_size(frame) == frame.size

\* FrameQueue::new(max_frames), followed by set_max_size(max_size)
NewFrameQueue(max_frames, max_size) ==
    [frames          |-> <<>>,
     max_frames      |-> max_frames,
     total_size      |-> 0,
     max_size        |-> max_size,
     last_pts        |-> None,
     frames_added    |-> 0,
     frames_dropped  |-> 0,
     frames_consumed |-> 0]

set_max_size(q, size) == [q EXCEPT !.max_size = size]

\* Mutant: evict from the back.
DropNewestFrame(q) ==
    IF q.frames = <<>> THEN q
    ELSE [q EXCEPT !.frames = SubSeq(q.frames, 1, Len(q.frames) - 1),
                   !.total_size = saturating_sub(q.total_size,
                                     estimate_frame_size(q.frames[Len(q.frames)])),
                   !.frames_dropped = q.frames_dropped + 1]

\* fn drop_oldest_frame
drop_oldest_frame(q) ==
    IF q.frames = <<>> THEN q
    ELSE [q EXCEPT !.frames = Tail(q.frames),
                   !.total_size = saturating_sub(q.total_size,
                                     estimate_frame_size(Head(q.frames))),
                   !.frames_dropped = q.frames_dropped + 1]

\* Mutants of the eviction condition of push_frame.
NeedsEvictionStrict(q, frame_size) ==
    (Len(q.frames) > q.max_frames \/ q.total_size + frame_size > q.max_size)
    /\ q.frames # <<>>

NeedsEvictionCountOnly(q, frame_size) ==
    Len(q.frames) >= q.max_frames /\ q.frames # <<>>

\* The condition of the while loop of push_frame.
NeedsEviction(q, frame_size) ==
    (Len(q.frames) >= q.max_frames \/ q.total_size + frame_size > q.max_size)
    /\ q.frames # <<>>

RECURSIVE EvictLoop(_, _)
EvictLoop(q, frame_size) ==
    IF NeedsEviction(q, frame_size)
    THEN EvictLoop(drop_oldest_frame(q), frame_size)
    ELSE q

\* Mutant: always append.
InsertPosAppend(frames, pts) == Len(frames) + 1

\* frames.iter().position(|f| f.pts > frame.pts).unwrap_or(frames.len()),
\* as a 1-based index of the sequence.
InsertPos(frames, pts) ==
    LET later == {i \in 1..Len(frames) : frames[i].pts > pts}
    IN IF later = {} THEN Len(frames) + 1
       ELSE CHOOSE i \in later : \A j \in later : i <= j

\* VecDeque::insert(pos, frame)
InsertAt(frames, pos, frame) ==
    SubSeq(frames, 1, pos - 1) \o <<frame>> \o SubSeq(frames, pos, Len(frames))

\* Mutant: a full queue refuses the frame instead of evicting.
PushFrameRefusingWhenFull(q, frame) ==
    LET fs == InsertAt(q.frames, InsertPos(q.frames, frame.pts), frame)
    IN IF Len(q.frames) >= q.max_frames THEN q
       ELSE [q EXCEPT !.frames = fs,
                      !.total_size = q.total_size + estimate_frame_size(frame),
                      !.last_pts = fs[Len(fs)].pts,
                      !.frames_added = q.frames_added + 1]

\* FrameQueue::push_frame
push_frame(q, frame) ==
    LET frame_size == estimate_frame_size(frame)
        q1 == EvictLoop(q, frame_size)
        fs == InsertAt(q1.frames, InsertPos(q1.frames, frame.pts), frame)
    IN [q1 EXCEPT !.frames = fs,
                  !.total_size = q1.total_size + frame_size,
                  !.last_pts = fs[Len(fs)].pts,
                  !.frames_added = q1.frames_added + 1]

pop_frame(q) ==
    IF q.frames = <<>> THEN q
    ELSE [q EXCEPT !.frames = Tail(q.frames),
                   !.total_size = saturating_sub(q.total_size,
                                     estimate_frame_size(Head(q.frames))),
                   !.frames_consumed = q.frames_consumed + 1]

RECURSIVE drop_frames_before(_, _)
drop_frames_before(q, pts) ==
    IF q.frames # <<>> /\ Head(q.frames).pts < pts
    THEN drop_frames_before(drop_oldest_frame(q), pts)
    ELSE q

clear(q) ==
    [q EXCEPT !.frames = <<>>, !.total_size = 0, !.last_pts = None]

(***************************************************************************)
(* decoder/frame_queue.rs: FrameTimingController.  Wall time is counted in *)
(* microseconds from the creation of the controller; `now` is the reading  *)
(* of Instant::now() at the last call.  last_present_time and last_pts are *)
(* Some together and None together (`anchored`).  The playback speed is a  *)
(* fraction [n, d]; the speeds used are powers of two, which f32 holds     *)
(* exactly.                                                                *)
(***************************************************************************)
\* FrameTimingController::new(target_fps): frame_duration =
\* (1_000_000.0 / target_fps) as i64
FrameTimingNew ==
    [frame_duration |-> 1000000 \div TargetFps,
     anchored |-> FALSE, last_present_time |-> 0, last_pts |-> 0,
     clock_offset |-> 0, playback_speed |-> [n |-> 1, d |-> 1],
     now |-> 0, calls |-> 0,
     op |-> "new", result |-> None, wait |-> 0, pts |-> 0, elapsed_us |-> 0]

FQInit ==
    /\ \E mf \in 0..MaxCap, ms \in 0..MaxBytes : fq = NewFrameQueue(mf, ms)
    /\ fq_pushed = [p \in PtsValues |-> 0]
    /\ fq_bytes = 0
    /\ fq_inorder = TRUE
    /\ ftc = FrameTimingNew

\* The FrameQueue of a specification that is not about it
FQInitFixed ==
    /\ fq = NewFrameQueue(MaxCap, MaxBytes)
    /\ fq_pushed = [p \in PtsValues |-> 0]
    /\ fq_bytes = 0
    /\ fq_inorder = TRUE
    /\ ftc = FrameTimingNew

\* One push_frame call of any frame.
PushFrame ==
    /\ fq.frames_added < MaxPushes
    /\ \E frame \in TestFrames : fq' = push_frame(fq, frame)
    /\ UNCHANGED <<fqhist, ftc, ctlvars, audiovars>>

PopFrame ==
    /\ fq' = pop_frame(fq)
    /\ UNCHANGED <<fqhist, ftc, ctlvars, audiovars>>

DropFramesBefore ==
    /\ \E pts \in PtsValues : fq' = drop_frames_before(fq, pts)
    /\ UNCHANGED <<fqhist, ftc, ctlvars, audiovars>>

Clear ==
    /\ fq' = clear(fq)
    /\ UNCHANGED <<fqhist, ftc, ctlvars, audiovars>>

SetMaxSize ==
    /\ \E size \in 0..MaxBytes : fq' = set_max_size(fq, size)
    /\ UNCHANGED <<fqhist, ftc, ctlvars, audiovars>>

FQNext ==
    \/ PushFrame
    \/ PopFrame
    \/ DropFramesBefore
    \/ Clear
    \/ SetMaxSize

\* One push_frame call on a queue that only ever sees pushes, recording
\* what was pushed.
PushFrameRecorded ==
    /\ fq.frames_added < MaxPushes
    /\ \E frame \in TestFrames :
        /\ fq' = push_frame(fq, frame)
        /\ fq_pushed' = [fq_pushed EXCEPT ![frame.pts] = @ + 1]
        /\ fq_bytes' = fq_bytes + frame.size
        /\ fq_inorder' = (fq_inorder /\
                            \A p \in PtsValues : fq_pushed[p] > 0 => p <= frame.pts)
    /\ UNCHANGED <<ftc, ctlvars, audiovars>>

FQPushNext == PushFrameRecorded

\* the spacing of the f32 values around n >= 0 (24 bits of mantissa)
RECURSIVE Ulp(_, _)
Ulp(n, u) == IF n < (2 ^ 24) * u THEN u ELSE Ulp(n, 2 * u)

\* n as f32, for 0 <= n: the nearest f32, ties to the even mantissa
as_f32(n) ==
    LET u == Ulp(n, 1)
        q == n \div u
        r == n % u
    IN IF 2 * r > u \/ (2 * r = u /\ q % 2 = 1) THEN (q + 1) * u ELSE q * u

\* (elapsed_us as f32 * self.playback_speed) as i64
scaled_elapsed(elapsed_us, speed) == (as_f32(elapsed_us) * speed.n) \div speed.d

\* -self.drop_threshold.as_micros() as i64, with drop_threshold =
\* Duration::from_millis(50)
drop_threshold_us == 50 * 1000

\* should_present_frame(frame) at the wall time now
should_present_frame(c, pts, now) ==
    LET called == [c EXCEPT !.now = now, !.calls = c.calls + 1,
                            !.op = "should_present_frame", !.pts = pts,
                            !.elapsed_us = IF c.anchored
                                           THEN now - c.last_present_time ELSE 0,
                            !.wait = 0]
        elapsed_us == now - c.last_present_time
        expected_pts == c.last_pts + scaled_elapsed(elapsed_us, c.playback_speed)
        pts_diff == pts - expected_pts
    IN IF ~c.anchored
       THEN [called EXCEPT !.anchored = TRUE, !.last_present_time = now,
                           !.last_pts = pts, !.clock_offset = pts,
                           !.result = "Present"]
       ELSE IF pts_diff > c.frame_duration
       THEN [called EXCEPT !.result = "Wait",
                           !.wait = pts_diff - c.frame_duration \div 2]
       ELSE IF pts_diff < -drop_threshold_us
       THEN [called EXCEPT !.result = "Drop"]
       ELSE [called EXCEPT !.last_present_time = now, !.last_pts = pts,
                           !.result = "Present"]

\* set_playback_speed(speed): speed.max(0.1).min(4.0), for speed >= 0.1
set_playback_speed(c, speed) ==
    [c EXCEPT !.playback_speed = IF speed.n > 4 * speed.d
                                 THEN [n |-> 4, d |-> 1] ELSE speed,
              !.op = "set_playback_speed", !.result = None, !.wait = 0]

\* reset()
timing_reset(c) ==
    [c EXCEPT !.anchored = FALSE, !.last_present_time = 0, !.last_pts = 0,
              !.clock_offset = 0,
              !.op = "reset", !.result = None, !.wait = 0]

\* sync_to_clock(pts) at the wall time now
sync_to_clock(c, pts, now) ==
    [c EXCEPT !.anchored = TRUE, !.last_present_time = now, !.last_pts = pts,
              !.now = now,
              !.op = "sync_to_clock", !.result = None, !.wait = 0]

\* the time that passes between two calls: none, a frame, and the first
\* whole number of microseconds that f32 does not hold
Pauses == {0, 1000000 \div TargetFps, 2 ^ 24 + 1}

\* what the PTS of a frame is ahead of the last presented PTS plus the
\* scaled time since: the thresholds of the decision and their neighbours
Leads == {-drop_threshold_us - 1, -drop_threshold_us, 0,
          1000000 \div TargetFps, 1000000 \div TargetFps + 1}

Speeds == {[n |-> 1, d |-> 2], [n |-> 1, d |-> 1], [n |-> 8, d |-> 1]}

\* last_pts + elapsed_us * speed, in whole microseconds
ExpectedPts(c, now) ==
    c.last_pts + ((now - c.last_present_time) * c.playback_speed.n)
                    \div c.playback_speed.d

FtcFrame == UNCHANGED <<fq, fqhist, ctlvars, audiovars>>

ShouldPresentFrame ==
    /\ ftc.calls < MaxTimingCalls
    /\ \E pause \in Pauses, lead \in Leads :
          ftc' = should_present_frame(ftc, ExpectedPts(ftc, ftc.now + pause) + lead,
                                      ftc.now + pause)
    /\ FtcFrame

SetPlaybackSpeed ==
    /\ \E speed \in Speeds : ftc' = set_playback_speed(ftc, speed)
    /\ FtcFrame

TimingReset ==
    /\ ftc' = timing_reset(ftc)
    /\ FtcFrame

SyncToClock ==
    /\ ftc.calls < MaxTimingCalls
    /\ \E pts \in {0, 1000000 \div TargetFps} : ftc' = sync_to_clock(ftc, pts, ftc.now)
    /\ FtcFrame

FrameTimingNext ==
    ShouldPresentFrame \/ SetPlaybackSpeed \/ TimingReset \/ SyncToClock

(***************************************************************************)
(* decoder: the Decoder capability behind PlayerController.decoder         *)
(* (decoder/ffmpeg_decoder.rs).  A media file is a sequence of packets; a  *)
(* file with an audio stream interleaves one audio packet after each video *)
(* packet, both with the same PTS.  Each packet decodes to one frame.      *)
(***************************************************************************)
Medias(n) == [audio : BOOLEAN, frames : {n}]

NumPackets(d) == IF d.audio THEN 2 * d.frames ELSE d.frames

\* Packet i (0-based) of the open input
PacketKind(d, i) == IF d.audio /\ i % 2 = 1 THEN "audio" ELSE "video"
PacketPts(d, i) == (IF d.audio THEN i \div 2 ELSE i) * FrameDuration

\* FFmpegDecoder::new: no input context
NewDecoder ==
    [open |-> FALSE, audio |-> FALSE, frames |-> 0,
     cursor |-> 0, eof |-> FALSE, epoch |-> 0]

\* Decoder::open_file, when it succeeds on media m
open_file(d, m) ==
    [d EXCEPT !.open = TRUE, !.audio = m.audio, !.frames = m.frames,
              !.cursor = 0, !.eof = FALSE]

NoPacket == -1

\* input.packets().next() until a packet of the wanted stream: its index, or
\* NoPacket at the end of the input
NextPacket(d, kind) ==
    LET found == {i \in d.cursor..(NumPackets(d) - 1) : PacketKind(d, i) = kind}
    IN IF found = {} THEN NoPacket
       ELSE CHOOSE i \in found : \A j \in found : i <= j

\* Decoder::decode_frame: [res |-> "some"/"none"/"err", frame, dec]
decode_frame(d) ==
    IF d.eof THEN [res |-> "none", dec |-> d]
    ELSE IF ~d.open THEN [res |-> "err", dec |-> d]
    ELSE LET i == NextPacket(d, "video")
         IN IF i = NoPacket
            THEN [res |-> "none", dec |-> [d EXCEPT !.eof = TRUE]]
            ELSE [res |-> "some",
                  frame |-> [pts |-> PacketPts(d, i), epoch |-> d.epoch],
                  dec |-> [d EXCEPT !.cursor = i + 1]]

\* Decoder::decode_audio
decode_audio(d) ==
    IF d.eof THEN [res |-> "none", dec |-> d]
    ELSE IF ~d.open \/ ~d.audio THEN [res |-> "err", dec |-> d]
    ELSE LET i == NextPacket(d, "audio")
         IN IF i = NoPacket
            THEN [res |-> "none", dec |-> [d EXCEPT !.eof = TRUE]]
            ELSE [res |-> "some",
                  frame |-> [pts |-> PacketPts(d, i), epoch |-> d.epoch],
                  dec |-> [d EXCEPT !.cursor = i + 1]]

\* Decoder::seek(timestamp): Err without an input, else the input is
\* repositioned to the packet of that timestamp.
decoder_seek(d, timestamp) ==
    IF ~d.open THEN [res |-> "err", dec |-> d]
    ELSE [res |-> "ok",
          dec |-> [d EXCEPT
                     !.cursor = (IF d.audio THEN 2 ELSE 1)
                                    * (timestamp \div FrameDuration),
                     !.eof = FALSE,
                     !.epoch = d.epoch + 1]]

(***************************************************************************)
(* audio/sync.rs: AVSyncController                                         *)
(***************************************************************************)
Abs(x) == IF x < 0 THEN -x ELSE x
Min(a, b) == IF a <= b THEN a ELSE b
Max(a, b) == IF a >= b THEN a ELSE b

\* Mutant: a frame exactly on the master clock repeats the previous one.
ShouldDisplayFrameRepeating(frame_pts, master) ==
    LET sync_error == frame_pts - master
    IN IF sync_error < -MAX_SYNC_DEVIATION_US THEN "Drop"
       ELSE IF sync_error > MAX_SYNC_DEVIATION_US THEN "Wait"
       ELSE IF sync_error = 0 THEN "Repeat"
       ELSE IF Abs(sync_error) < SYNC_TARGET_US THEN "Display"
       ELSE "DisplayWithAdjustment"

\* Mutant: the deviation limits are inclusive.
ShouldDisplayFrameInclusive(frame_pts, master) ==
    LET sync_error == frame_pts - master
    IN IF sync_error <= -MAX_SYNC_DEVIATION_US THEN "Drop"
       ELSE IF sync_error >= MAX_SYNC_DEVIATION_US THEN "Wait"
       ELSE IF Abs(sync_error) < SYNC_TARGET_US THEN "Display"
       ELSE "DisplayWithAdjustment"

\* AVSyncController::should_display_frame, with the master clock at master
should_display_frame(frame_pts, master) ==
    LET sync_error == frame_pts - master
    IN IF sync_error < -MAX_SYNC_DEVIATION_US THEN "Drop"
       ELSE IF sync_error > MAX_SYNC_DEVIATION_US THEN "Wait"
       ELSE IF Abs(sync_error) < SYNC_TARGET_US THEN "Display"
       ELSE "DisplayWithAdjustment"

\* AVSyncController::check_video_frame, as the render loop calls it: the
\* decision of should_display_frame, where a frame displayed with an
\* adjustment is a frame to display.
check_video_frame(frame_pts, master) ==
    LET action == should_display_frame(frame_pts, master)
    IN IF action = "DisplayWithAdjustment" THEN "Display" ELSE action

\* AVSyncController::update_audio_clock: in AudioMaster mode the audio PTS
\* is the master clock.
update_audio_clock(master, pts) == pts

\* AVSyncController::reset: the clocks start again from 0
sync_reset(master) == 0

\* AVSyncController::update_audio in the default mode, AudioMaster:
\* master_clock.set_pts(pts)
update_audio(master, pts) == pts

SyncModes == {"AudioMaster", "VideoMaster", "ExternalClock", "FreeRunning"}

\* AVSyncController::new: the master clock, the video clock (last_pts,
\* dropped_frames), the stats (stats_dropped) and the mode; frame_pts and
\* action are the last call of should_display_frame and what it returned
SyncNew ==
    [master_pts |-> 0, frame_pts |-> NoPts, action |-> None,
     last_pts |-> 0, dropped_frames |-> 0, stats_dropped |-> 0,
     mode |-> "AudioMaster", op |-> "new"]

\* Mutant: a frame waited for is recorded as displayed and counted as
\* dropped.
DisplayFrameCountingWaits(s, frame_pts) ==
    LET action == should_display_frame(frame_pts, s.master_pts)
    IN [s EXCEPT
          !.frame_pts = frame_pts,
          !.action = action,
          !.dropped_frames = IF action \in {"Drop", "Wait"} THEN @ + 1 ELSE @,
          !.stats_dropped = IF action \in {"Drop", "Wait"} THEN @ + 1 ELSE @,
          !.last_pts = IF action # "Drop" THEN frame_pts ELSE @,
          !.op = "should_display_frame"]

\* AVSyncController::should_display_frame: what the call leaves in the
\* controller
display_frame(s, frame_pts) ==
    LET action == should_display_frame(frame_pts, s.master_pts)
    IN [s EXCEPT
          !.frame_pts = frame_pts,
          !.action = action,
          !.dropped_frames = IF action = "Drop" THEN @ + 1 ELSE @,
          !.stats_dropped = IF action = "Drop" THEN @ + 1 ELSE @,
          !.last_pts = IF action \in {"Display", "DisplayWithAdjustment"}
                       THEN frame_pts ELSE @,
          !.op = "should_display_frame"]

\* AVSyncController::get_stats: the dropped frames it reports are the video
\* clock's
get_stats(s) == [dropped_frames |-> s.dropped_frames]

\* AVSyncController::reset_stats
reset_stats(s) ==
    [s EXCEPT !.dropped_frames = 0, !.stats_dropped = 0, !.op = "reset_stats"]

\* Master clock values, and the sync errors around every threshold of the
\* decision and well beyond them
SyncMasters == {0, MAX_SYNC_DEVIATION_US, 100000, 1000000}
SyncErrorCentres ==
    {-50000, -MAX_SYNC_DEVIATION_US, -SYNC_TARGET_US, 0, SYNC_TARGET_US,
     MAX_SYNC_DEVIATION_US, 100000}
SyncErrors ==
    UNION {(c - SyncSlack)..(c + SyncSlack) : c \in SyncErrorCentres}

\* sync.update_audio(pts, _): in the mode AudioMaster the master clock is
\* set, in the other modes only the error statistics are updated
UpdateAudioClock ==
    \E pts \in SyncMasters :
       sync' = [sync EXCEPT
                  !.master_pts = IF sync.mode = "AudioMaster"
                                 THEN update_audio(sync.master_pts, pts)
                                 ELSE @,
                  !.frame_pts = NoPts,
                  !.action = None,
                  !.op = "update_audio"]

UpdateAudio ==
    /\ UpdateAudioClock
    /\ UNCHANGED <<fqvars, ctlvars, pv, ren, ao, vc, vr, clk, vol>>

\* sync.should_display_frame(frame_pts)
ShouldDisplayFrame ==
    /\ sync.dropped_frames < MaxDrops
    /\ \E e \in SyncErrors :
          LET frame_pts == sync.master_pts + e
          IN /\ frame_pts >= 0
             /\ sync' = display_frame(sync, frame_pts)
    /\ UNCHANGED <<fqvars, ctlvars, pv, ren, ao, vc, vr, clk, vol>>

\* sync.reset_stats()
ResetStats ==
    /\ sync' = reset_stats(sync)
    /\ UNCHANGED <<fqvars, ctlvars, pv, ren, ao, vc, vr, clk, vol>>

\* sync.set_mode(mode)
SetSyncMode ==
    \E mode \in SyncModes : sync' = [sync EXCEPT !.mode = mode, !.op = "set_mode"]

SyncNext == UpdateAudio \/ ShouldDisplayFrame \/ ResetStats

(***************************************************************************)
(* audio/cpal_output.rs: CpalAudioOutput                                   *)
(*                                                                         *)
(* The ring buffer holds RingSize samples per channel (RING_BUFFER_SIZE in *)
(* the code) and the device asks for CallbackFrames frames at a time       *)
(* (BufferSize::Fixed(256)).  A batch of k samples is <<1, ..., k>>, so    *)
(* that the position of a sample in its batch can be read off the ring.    *)
(* The push loop of play() is one step: it holds the producer lock, and    *)
(* the callback removes samples only in the state Playing.                 *)
(***************************************************************************)
Channels == 1..MaxChannels
Batch(k) == [i \in 1..k |-> i]
Zeros(n) == [i \in 1..n |-> 0]
NoSamples == [data |-> <<>>, channels |-> 0]

\* CpalAudioOutput::new: state Stopped, no producer, no stream, no format
AudioOutputNew ==
    [state |-> "Stopped", producer |-> FALSE, stream |-> FALSE, channels |-> 0,
     callback_channels |-> 0, capacity |-> 0, ring |-> <<>>,
     samples_played |-> 0, underruns |-> 0,
     cb |-> None, out |-> <<>>, was |-> "Stopped",
     op |-> "new", res |-> "Ok", arg |-> NoSamples]

\* enum PlaybackState of the output
PlaybackStates == {"Stopped", "Playing", "Paused", "Buffering"}

\* the call returns: what it was, what it was given and what it answered
Returns(o, op, res, arg) == [o EXCEPT !.op = op, !.res = res, !.arg = arg]

\* initialize(format) that finds no default output device: the old stream
\* is dropped and nothing else happens
initialize_no_device(o) ==
    Returns([o EXCEPT !.stream = FALSE, !.cb = None], "initialize", "Err", NoSamples)

\* initialize(format) whose stream cannot be built or started: the new ring
\* buffer is already in place, the format and the stream are not stored
initialize_no_stream(o, channels) ==
    Returns([o EXCEPT !.stream = FALSE, !.cb = None, !.producer = TRUE,
                      !.capacity = RingSize * channels, !.ring = <<>>],
            "initialize", "Err", NoSamples)

\* initialize(format): a new, empty ring buffer of RING_BUFFER_SIZE *
\* channels samples, a new stream with its callback; the state is not
\* written
ao_initialize(o, channels) ==
    Returns([o EXCEPT !.stream = TRUE, !.cb = None, !.producer = TRUE,
                      !.capacity = RingSize * channels, !.ring = <<>>,
                      !.channels = channels, !.callback_channels = channels],
            "initialize", "Ok", NoSamples)

\* fill_ratio >= MIN_FILL_RATIO, with MIN_FILL_RATIO = 0.25
FillReached(len, capacity) == 4 * len >= capacity

\* Mutant: a full ring keeps the newest samples of the batch.
WrittenNewest(data, free) ==
    SubSeq(data, Len(data) - Min(free, Len(data)) + 1, Len(data))

\* the push loop of play(): samples are pushed in order until a push fails
Written(data, free) == SubSeq(data, 1, Min(free, Len(data)))

\* play(samples), for samples at the sample rate of the format
ao_play(o, samples) ==
    IF ~o.producer \/ o.channels = 0 \/ samples.channels # o.channels
    THEN Returns(o, "play", "Err", samples)
    ELSE LET ring == o.ring \o Written(samples.data, o.capacity - Len(o.ring))
         IN Returns([o EXCEPT
                !.ring = ring,
                !.state = IF o.state = "Buffering" /\ FillReached(Len(ring), o.capacity)
                          THEN "Playing" ELSE o.state],
             "play", "Ok", samples)

\* pause()
ao_pause(o) ==
    Returns([o EXCEPT !.state = IF o.state = "Playing" THEN "Paused" ELSE o.state],
            "pause", "Ok", NoSamples)

\* Mutant: resume() also starts an output that is Buffering.
ResumeFromBuffering(o) ==
    Returns([o EXCEPT !.state = IF o.state \in {"Paused", "Buffering"}
                                 THEN "Playing" ELSE o.state],
            "resume", "Ok", NoSamples)

\* resume()
ao_resume(o) ==
    Returns([o EXCEPT !.state = IF o.state = "Paused" THEN "Playing" ELSE o.state],
            "resume", "Ok", NoSamples)

\* stop(): Stopped, the ring buffer cleared if there is one, the clock and
\* the underrun count reset
ao_stop(o) ==
    Returns([o EXCEPT !.state = "Stopped", !.ring = <<>>,
                      !.samples_played = 0, !.underruns = 0],
            "stop", "Ok", NoSamples)

\* is_playing()
is_playing(o) == o.state = "Playing"

\* Mutant: the callback takes samples in every state but Paused.
ConsumesUnlessPaused(current_state) == current_state # "Paused"

\* the arm of the callback's match that reads the ring buffer
Consumes(current_state) == current_state = "Playing"

\* Mutant: an underrun is not counted.
CallbackUncounted(o) ==
    LET samples_needed == CallbackFrames * o.callback_channels
        done == [o EXCEPT !.cb = None, !.op = "callback", !.res = "Ok",
                          !.arg = NoSamples]
    IN IF ~Consumes(o.cb)
       THEN [done EXCEPT !.out = Zeros(samples_needed)]
       ELSE IF Len(o.ring) >= samples_needed
       THEN [done EXCEPT
                !.out = SubSeq(o.ring, 1, samples_needed),
                !.ring = SubSeq(o.ring, samples_needed + 1, Len(o.ring)),
                !.samples_played = o.samples_played + CallbackFrames]
       ELSE [done EXCEPT !.out = Zeros(samples_needed),
                         !.state = "Buffering"]

\* the output stream callback, from the state it read to its return
callback(o) ==
    LET samples_needed == CallbackFrames * o.callback_channels
        done == [o EXCEPT !.cb = None, !.op = "callback", !.res = "Ok",
                          !.arg = NoSamples]
    IN IF ~Consumes(o.cb)
       THEN [done EXCEPT !.out = Zeros(samples_needed)]
       ELSE IF Len(o.ring) >= samples_needed
       THEN [done EXCEPT
                !.out = SubSeq(o.ring, 1, samples_needed),
                !.ring = SubSeq(o.ring, samples_needed + 1, Len(o.ring)),
                !.samples_played = o.samples_played + CallbackFrames]
       ELSE [done EXCEPT !.out = Zeros(samples_needed),
                         !.underruns = o.underruns + 1,
                         !.state = "Buffering"]

\* the step leaves behind the state it found
Was(o) == [o EXCEPT !.was = ao.state]

AoFrame == UNCHANGED <<fqvars, ctlvars, pv, ren, sync, vc, vr, clk, vol>>

\* a call of the AudioOutput trait on the player's side
AoCall ==
    /\ \/ \E channels \in Channels :
             \/ ao' = Was(ao_initialize(ao, channels))
             \/ ao' = Was(initialize_no_stream(ao, channels))
             \/ ao' = Was(initialize_no_device(ao))
       \/ \E k \in 0..MaxSamples, channels \in Channels :
             ao' = Was(ao_play(ao, [data |-> Batch(k), channels |-> channels]))
       \/ ao' = Was(ao_pause(ao))
       \/ ao' = Was(ao_resume(ao))
       \/ ao' = Was(ao_stop(ao))
    /\ AoFrame

\* the device thread enters the callback: let current_state = *state.read()
CallbackReads ==
    /\ ao.stream /\ ao.cb = None
    /\ ao.underruns < MaxUnderruns
    /\ ao.samples_played < MaxPlayed * CallbackFrames
    /\ ao' = Was(Returns([ao EXCEPT !.cb = ao.state], "callback_enter", "Ok",
                         NoSamples))
    /\ AoFrame

\* the rest of the callback
CallbackRuns ==
    /\ ao.cb # None
    /\ ao' = Was(callback(ao))
    /\ AoFrame

AudioOutputNext ==
    AoCall \/ CallbackReads \/ CallbackRuns

\* the calls on an output that has been initialized: play() of no sample or
\* of one, in the format of the output, pause(), resume() and stop()
AoPlayback ==
    /\ \/ \E k \in 0..1 :
             ao' = Was(ao_play(ao, [data |-> Batch(k), channels |-> ao.channels]))
       \/ ao' = Was(ao_pause(ao))
       \/ ao' = Was(ao_resume(ao))
       \/ ao' = Was(ao_stop(ao))
    /\ AoFrame

AudioStatesNext ==
    AoPlayback \/ CallbackReads \/ CallbackRuns

(***************************************************************************)
(* Gains are f32 in the code; here they are exact fractions [n, d] in      *)
(* lowest terms with d > 0.                                                *)
(***************************************************************************)
RECURSIVE GCD(_, _)
GCD(a, b) == IF b = 0 THEN a ELSE GCD(b, a % b)
Frac(n, d) ==
    LET g == GCD(Abs(n), Abs(d))
        sgn == IF d < 0 THEN -1 ELSE 1
    IN [n |-> sgn * (n \div g), d |-> sgn * (d \div g)]
FracAdd(x, y) == Frac(x.n * y.d + y.n * x.d, x.d * y.d)
FracSub(x, y) == Frac(x.n * y.d - y.n * x.d, x.d * y.d)
FracMul(x, y) == Frac(x.n * y.n, x.d * y.d)
FracDiv(x, k) == Frac(x.n, x.d * k)
FracLeq(x, y) == x.n * y.d <= y.n * x.d
FracLess(x, y) == x.n * y.d < y.n * x.d
FracAbs(x) == [n |-> Abs(x.n), d |-> x.d]
Zero == Frac(0, 1)
One == Frac(1, 1)

\* f32::clamp(0.0, 1.0)
Clamp(x) == IF FracLess(x, Zero) THEN Zero ELSE IF FracLess(One, x) THEN One ELSE x

\* volumes a caller asks for: quarters from below 0 to above 1
Volumes == {Frac(n, 4) : n \in -2..6}

(***************************************************************************)
(* audio/cpal_output.rs: VolumeControl.  A ramp takes RampSamples samples  *)
(* (VOLUME_RAMP_SAMPLES in the code).                                      *)
(***************************************************************************)
\* VolumeControl::new; `requested` is the last argument of set_target and
\* `processed` the number of samples processed since, up to RampSamples
VolumeControlNew ==
    [current |-> One, target |-> One, ramp_samples |-> 0,
     requested |-> One, processed |-> RampSamples, targets |-> 0]

\* let step = (self.target - self.current) / self.ramp_samples as f32
RampStep(v) == FracDiv(FracSub(v.target, v.current), v.ramp_samples)

\* VolumeControl::process: the gain the sample is multiplied by afterwards
\* is `current`
vc_process(v) ==
    LET ramped == IF v.ramp_samples = 1 THEN v.target
                  ELSE FracAdd(v.current, RampStep(v))
        w == IF v.ramp_samples > 0
             THEN [v EXCEPT !.current = ramped, !.ramp_samples = v.ramp_samples - 1]
             ELSE v
    IN [w EXCEPT !.processed = Min(v.processed + 1, RampSamples)]

\* Mutant: the target is taken as given.
SetTargetUnclamped(v, volume) ==
    [v EXCEPT !.target = volume, !.ramp_samples = RampSamples,
              !.requested = volume, !.processed = 0,
              !.targets = v.targets + 1]

\* VolumeControl::set_target
vc_set_target(v, volume) ==
    [v EXCEPT !.target = Clamp(volume), !.ramp_samples = RampSamples,
              !.requested = volume, !.processed = 0,
              !.targets = v.targets + 1]

VcFrame == UNCHANGED <<fqvars, ctlvars, pv, ren, sync, ao, vr, clk, vol>>

Process == vc' = vc_process(vc) /\ VcFrame

SetTarget ==
    /\ vc.targets < MaxTargets
    /\ \E volume \in Volumes : vc' = vc_set_target(vc, volume)
    /\ VcFrame

VolumeControlNext == Process \/ SetTarget

(***************************************************************************)
(* audio/volume.rs: VolumeRamp, with the duration test_volume_ramp gives   *)
(* it; `values` are the values next_value has returned, `targets` the      *)
(* number of set_target calls.                                             *)
(***************************************************************************)
RampTypes == {"Linear", "Exponential", "SCurve"}

\* VolumeRamp::new, then ramp.duration_samples = 10
VolumeRampNew ==
    [current |-> One, target |-> One, duration_samples |-> TEST_RAMP_DURATION,
     samples_processed |-> 0, ramp_type |-> "Exponential",
     values |-> <<>>, targets |-> 0]

\* VolumeRamp::set_target
vr_set_target(r, target) ==
    LET s == IF FracLess(Frac(1, 1000), FracAbs(FracSub(target, r.current)))
             THEN [r EXCEPT !.target = target, !.samples_processed = 0]
             ELSE r
    IN [s EXCEPT !.targets = r.targets + 1]

\* the factor of next_value at the given progress
RampFactor(r, progress) ==
    IF r.ramp_type = "Linear" THEN progress
    ELSE IF r.ramp_type = "Exponential"
    THEN IF FracLess(r.current, r.target)
         THEN FracSub(One, FracMul(FracSub(One, progress), FracSub(One, progress)))
         ELSE FracMul(progress, progress)
    ELSE FracMul(FracMul(progress, progress),
                 FracSub(Frac(3, 1), FracMul(Frac(2, 1), progress)))

\* VolumeRamp::next_value: the ramp after the call and the value returned
next_value(r) ==
    IF r.samples_processed >= r.duration_samples
    THEN [ramp |-> [r EXCEPT !.current = r.target], value |-> r.target]
    ELSE LET progress == Frac(r.samples_processed, r.duration_samples)
         IN [ramp |-> [r EXCEPT !.samples_processed = r.samples_processed + 1],
             value |-> FracAdd(r.current,
                               FracMul(FracSub(r.target, r.current),
                                       RampFactor(r, progress)))]

VrFrame == UNCHANGED <<fqvars, ctlvars, pv, ren, sync, ao, vc, clk, vol>>

\* ramp.ramp_type = ..., before the ramp is used
RampSetType ==
    /\ vr.targets = 0 /\ vr.values = <<>>
    /\ \E t \in RampTypes : vr' = [vr EXCEPT !.ramp_type = t]
    /\ VrFrame

RampSetTarget ==
    /\ vr.targets < MaxRampTargets
    /\ \E target \in Volumes : vr' = vr_set_target(vr, Clamp(target))
    /\ VrFrame

RampNextValue ==
    /\ Len(vr.values) < TEST_RAMP_VALUES
    /\ LET r == next_value(vr)
       IN vr' = [r.ramp EXCEPT !.values = Append(vr.values, r.value)]
    /\ VrFrame

VolumeRampNext == RampSetType \/ RampSetTarget \/ RampNextValue

(***************************************************************************)
(* 64-bit integers as 8 bytes, least significant first; longer sequences   *)
(* are integers that need not fit in 64 bits.                              *)
(***************************************************************************)
Bytes(n) == [i \in 1..8 |-> IF i <= 4 THEN (n \div 256 ^ (i - 1)) % 256 ELSE 0]
TwoTo43 == <<0, 0, 0, 0, 0, 8, 0, 0>>
TwoTo44 == <<0, 0, 0, 0, 0, 16, 0, 0>>

RECURSIVE Trim(_)
Trim(a) == IF a # <<>> /\ a[Len(a)] = 0 THEN Trim(SubSeq(a, 1, Len(a) - 1)) ELSE a
Pad(a, len) == IF Len(a) >= len THEN a ELSE a \o [i \in 1..(len - Len(a)) |-> 0]

RECURSIVE CarryBytes(_)
CarryBytes(c) == IF c = 0 THEN <<>> ELSE <<c % 256>> \o CarryBytes(c \div 256)

\* a + b + carry, for a and b of one length
RECURSIVE AddBytes(_, _, _)
AddBytes(a, b, carry) ==
    IF a = <<>> THEN CarryBytes(carry)
    ELSE LET t == Head(a) + Head(b) + carry
         IN <<t % 256>> \o AddBytes(Tail(a), Tail(b), t \div 256)

\* a * m + carry, for a small m
RECURSIVE MulBytes(_, _, _)
MulBytes(a, m, carry) ==
    IF a = <<>> THEN CarryBytes(carry)
    ELSE LET t == Head(a) * m + carry
         IN <<t % 256>> \o MulBytes(Tail(a), m, t \div 256)

\* a divided by a small d > 0: quotient and remainder
RECURSIVE DivBytes(_, _)
DivBytes(a, d) ==
    IF a = <<>> THEN [q |-> <<>>, r |-> 0]
    ELSE LET high == DivBytes(Tail(a), d)
             t == high.r * 256 + Head(a)
         IN [q |-> <<t \div d>> \o high.q, r |-> t % d]

\* wrapping to 64 bits, and the two's complement reading of 64 bits
Wrap64(a) == SubSeq(Pad(a, 8), 1, 8)
IsNegative(a) == a[8] >= 128
Negate64(a) == Wrap64(AddBytes([i \in 1..8 |-> 255 - a[i]], Bytes(1), 0))
Magnitude(a) == IF IsNegative(a) THEN Negate64(a) ELSE a
FitsI64(magnitude, negative) ==
    LET m == Trim(magnitude)
    IN \/ Len(m) < 8
       \/ Len(m) = 8 /\ m[8] < 128
       \/ negative /\ m = <<0, 0, 0, 0, 0, 0, 0, 128>>

(***************************************************************************)
(* audio/cpal_output.rs: AudioClock.  `total` is the sum of the arguments  *)
(* of update_samples since new() or reset(), without any wrapping; a       *)
(* position is a sign and a magnitude, or the panic of an overflow check.  *)
(***************************************************************************)
Position(negative, magnitude) ==
    [panic |-> FALSE, negative |-> negative /\ Trim(magnitude) # <<>>,
     magnitude |-> Trim(magnitude)]
Panic == [panic |-> TRUE, negative |-> FALSE, magnitude |-> <<>>]

\* AudioClock::new
AudioClockNew ==
    [sample_rate |-> DEFAULT_SAMPLE_RATE, samples_played |-> Bytes(0),
     total |-> <<>>, updates |-> 0, op |-> "new", position |-> Position(FALSE, <<>>)]

\* AudioClock::update_samples: samples_played.fetch_add(samples)
update_samples(c, samples) ==
    [c EXCEPT !.samples_played = Wrap64(AddBytes(c.samples_played, samples, 0)),
              !.total = Trim(AddBytes(Pad(c.total, 10), Pad(samples, 10), 0)),
              !.updates = c.updates + 1,
              !.op = "update_samples"]

\* AudioClock::reset
clock_reset(c) ==
    [c EXCEPT !.samples_played = Bytes(0), !.total = <<>>, !.op = "reset"]

\* AudioClock::get_position: (samples as i64 * 1_000_000) / sample_rate as
\* i64.  The multiplication is in i64: a build with overflow checks panics
\* when the product does not fit, any other build keeps its low 64 bits.
get_position(c, checked) ==
    IF c.sample_rate = 0 THEN Position(FALSE, <<>>)
    ELSE LET samples == c.samples_played
             exact == MulBytes(Magnitude(samples), MICROS_PER_SECOND, 0)
             product == Wrap64(MulBytes(samples, MICROS_PER_SECOND, 0))
         IN IF checked /\ ~FitsI64(exact, IsNegative(samples)) THEN Panic
            ELSE Position(IsNegative(product),
                          DivBytes(Magnitude(product), c.sample_rate).q)

SampleRates == {0, 44100, DEFAULT_SAMPLE_RATE}
SampleCounts == {Bytes(1), Bytes(DEFAULT_SAMPLE_RATE), TwoTo43, TwoTo44}

ClkFrame == UNCHANGED <<fqvars, ctlvars, pv, ren, sync, ao, vc, vr, vol>>

\* clock.sample_rate.store(format.sample_rate)
SetSampleRate ==
    /\ \E rate \in SampleRates : clk' = [clk EXCEPT !.sample_rate = rate, !.op = "sample_rate"]
    /\ ClkFrame

UpdateSamples ==
    /\ clk.updates < MaxUpdates
    /\ \E samples \in SampleCounts : clk' = update_samples(clk, samples)
    /\ ClkFrame

ClockReset == clk' = clock_reset(clk) /\ ClkFrame

GetPosition ==
    /\ \E checked \in BOOLEAN :
          clk' = [clk EXCEPT !.position = get_position(clk, checked),
                             !.op = "get_position"]
    /\ ClkFrame

AudioClockNext == SetSampleRate \/ UpdateSamples \/ ClockReset \/ GetPosition

(***************************************************************************)
(* audio/volume.rs: VolumeController.  `requested` is the last argument of *)
(* a set_volume call made from outside, `op` the last call, `gain` the     *)
(* last value the ramp returned to apply_volume and `since` the number of  *)
(* samples processed since the last set_volume.                            *)
(***************************************************************************)
\* VolumeController::new
VolumeControllerNew ==
    [master_volume |-> One, muted |-> FALSE, pre_mute_volume |-> One,
     ramp |-> [VolumeRampNew EXCEPT !.duration_samples = DEFAULT_RAMP_DURATION],
     requested |-> One, op |-> "new", gain |-> One, since |-> 0]

\* VolumeController::set_volume
set_volume(v, volume) ==
    LET clamped == Clamp(volume)
    IN [v EXCEPT !.master_volume = clamped,
                 !.ramp = vr_set_target(v.ramp, clamped),
                 !.pre_mute_volume = IF ~v.muted THEN clamped ELSE v.pre_mute_volume]

\* VolumeController::set_ramp_duration_ms, for a duration of `samples`
\* samples at the sample rate given
set_ramp_duration(v, samples) == [v EXCEPT !.ramp.duration_samples = samples]

\* VolumeController::apply_volume on a buffer of one sample
apply_volume(v) ==
    LET next == next_value(v.ramp)
    IN [v EXCEPT !.ramp = next.ramp, !.gain = next.value]

\* VolumeController::get_volume
get_volume(v) == v.master_volume

\* VolumeController::is_muted
is_muted(v) == v.muted

\* VolumeController::mute
mute(v) == [v EXCEPT !.pre_mute_volume = v.master_volume, !.muted = TRUE]

\* VolumeController::unmute
unmute(v) ==
    LET w == [v EXCEPT !.muted = FALSE]
    IN set_volume(w, w.pre_mute_volume)

VolFrame == UNCHANGED <<fqvars, ctlvars, pv, ren, sync, ao, vc, vr, clk>>

\* the ramp only matters through its target here
SameRamp(v) == [v EXCEPT !.ramp.targets = 0]

VolSetVolume ==
    /\ \E volume \in Volumes :
          vol' = [SameRamp(set_volume(vol, volume)) EXCEPT
                     !.requested = volume, !.op = "set_volume", !.since = 0]
    /\ VolFrame

VolMute == vol' = [mute(vol) EXCEPT !.op = "mute"] /\ VolFrame

VolUnmute == vol' = [SameRamp(unmute(vol)) EXCEPT !.op = "unmute"] /\ VolFrame

VolumeControllerNext == VolSetVolume \/ VolMute \/ VolUnmute

\* ramps of 1 to RampSamples samples
VolSetRampDuration ==
    /\ \E samples \in 1..RampSamples :
          vol' = [set_ramp_duration(vol, samples) EXCEPT !.op = "set_ramp_duration"]
    /\ VolFrame

\* one more sample goes through apply_volume, once the ramp is short enough
\* to be followed to its end
VolApplyVolume ==
    /\ vol.ramp.duration_samples <= RampSamples
    /\ vol.since <= vol.ramp.duration_samples
    /\ vol' = [apply_volume(vol) EXCEPT !.op = "apply_volume",
                                        !.since = vol.since + 1]
    /\ VolFrame

VolumeRampingNext == VolSetVolume \/ VolSetRampDuration \/ VolApplyVolume

(***************************************************************************)
(* player/controller.rs: the worker threads                                *)
(***************************************************************************)
Workers == {"decoder", "audio", "render"}

\* while running.load() { if paused.load() { sleep; continue } ... }:
\* where the loop goes from its head
LoopHead(body) ==
    IF ~running THEN "exited"
    ELSE IF paused THEN "head"
    ELSE body

\* ---- decoder_thread_fn ----
DecHead ==
    /\ dpc = "head"
    /\ dpc' = LoopHead("sizes")
    /\ UNCHANGED <<d_vok, d_aok, pstate, flags, queues, threads, decoder,
                   master_pts, avars, rvars, cvars>>

\* Mutant: a queue at its limit still takes one more.
DecSizesInclusive ==
    /\ dpc = "sizes"
    /\ LET video_queue_size == Len(video_queue)
           audio_queue_size == Len(audio_queue)
       IN IF video_queue_size > VideoSoft /\ audio_queue_size > AudioSoft
          THEN /\ dpc' = "head"
               /\ UNCHANGED <<d_vok, d_aok>>
          ELSE /\ dpc' = "video"
               /\ d_vok' = (video_queue_size <= VideoMax)
               /\ d_aok' = (audio_queue_size <= AudioMax)
    /\ UNCHANGED <<pstate, flags, queues, threads, decoder, master_pts,
                   avars, rvars, cvars>>

\* the two queue lengths are read; too far ahead: sleep and continue
DecSizes ==
    /\ dpc = "sizes"
    /\ LET video_queue_size == Len(video_queue)
           audio_queue_size == Len(audio_queue)
       IN IF video_queue_size > VideoSoft /\ audio_queue_size > AudioSoft
          THEN /\ dpc' = "head"
               /\ UNCHANGED <<d_vok, d_aok>>
          ELSE /\ dpc' = "video"
               /\ d_vok' = (video_queue_size < VideoMax)
               /\ d_aok' = (audio_queue_size < AudioMax)
    /\ UNCHANGED <<pstate, flags, queues, threads, decoder, master_pts,
                   avars, rvars, cvars>>

\* if video_queue_size < 30 { match decoder.lock().decode_frame() {...} }
\* (the decoder lock is held to the end of the match)
DecVideo ==
    /\ dpc = "video"
    /\ IF ~d_vok
       THEN /\ dpc' = "audio"
            /\ UNCHANGED <<decoder, video_queue, state>>
       ELSE LET r == decode_frame(decoder)
            IN /\ decoder' = r.dec
               /\ IF r.res = "some"
                  THEN /\ video_queue' = Append(video_queue, r.frame)
                       /\ dpc' = "audio"
                       /\ UNCHANGED state
                  ELSE IF r.res = "none"
                  THEN /\ state' = "Ended"
                       /\ dpc' = "exited"
                       /\ UNCHANGED video_queue
                  ELSE /\ dpc' = "audio"
                       /\ UNCHANGED <<video_queue, state>>
    /\ d_vok' = FALSE
    /\ d_aok' = (IF dpc' = "exited" THEN FALSE ELSE d_aok)
    /\ UNCHANGED <<media_info, position_us, flags, audio_queue, threads,
                   master_pts, avars, rvars, cvars>>

\* if audio_queue_size < 100 { match decoder.lock().decode_audio() {...} }
DecAudio ==
    /\ dpc = "audio"
    /\ IF ~d_aok
       THEN UNCHANGED <<decoder, audio_queue>>
       ELSE LET r == decode_audio(decoder)
            IN /\ decoder' = r.dec
               /\ IF r.res = "some"
                  THEN audio_queue' = Append(audio_queue, r.frame)
                  ELSE UNCHANGED audio_queue
    /\ dpc' = "head"
    /\ d_aok' = FALSE
    /\ UNCHANGED <<d_vok, pstate, flags, video_queue, threads, master_pts,
                   avars, rvars, cvars>>

DecoderThread == DecHead \/ DecSizes \/ DecVideo \/ DecAudio

\* ---- audio_thread_fn ----
AudHead ==
    /\ apc = "head"
    /\ apc' = LoopHead("pop")
    /\ UNCHANGED <<a_pts, pstate, flags, queues, threads, decoder, master_pts,
                   dvars, rvars, cvars>>

\* audio_queue.lock().pop_front(); nothing there: sleep and loop
AudPop ==
    /\ apc = "pop"
    /\ IF audio_queue = <<>>
       THEN /\ apc' = "head"
            /\ UNCHANGED <<a_pts, audio_queue>>
       ELSE /\ a_pts' = Head(audio_queue).pts
            /\ audio_queue' = Tail(audio_queue)
            /\ apc' = "clock"
    /\ UNCHANGED <<pstate, flags, video_queue, threads, decoder, master_pts,
                   dvars, rvars, cvars>>

\* av_sync.lock().update_audio_clock(samples.pts)
AudClock ==
    /\ apc = "clock"
    /\ master_pts' = update_audio_clock(master_pts, a_pts)
    /\ apc' = "position"
    /\ UNCHANGED <<a_pts, pstate, flags, queues, threads, decoder, dvars, rvars, cvars>>

\* state.write().position_us = samples.pts; then audio.play(&samples)
AudPosition ==
    /\ apc = "position"
    /\ position_us' = a_pts
    /\ a_pts' = NoPts
    /\ apc' = "head"
    /\ UNCHANGED <<state, media_info, flags, queues, threads, decoder,
                   master_pts, dvars, rvars, cvars>>

AudioThread == AudHead \/ AudPop \/ AudClock \/ AudPosition

\* ---- render_thread_fn ----
RenHead ==
    /\ rpc = "head"
    /\ rpc' = LoopHead("peek")
    /\ UNCHANGED <<r_frame, r_action, pstate, flags, queues, threads, decoder,
                   master_pts, dvars, avars, cvars>>

\* video_queue.lock().front().cloned(); nothing there: sleep and loop
RenPeek ==
    /\ rpc = "peek"
    /\ IF video_queue = <<>>
       THEN /\ rpc' = "head"
            /\ UNCHANGED r_frame
       ELSE /\ r_frame' = Head(video_queue)
            /\ rpc' = "decide"
    /\ UNCHANGED <<r_action, pstate, flags, queues, threads, decoder,
                   master_pts, dvars, avars, cvars>>

\* av_sync.lock().check_video_frame(frame.pts)
RenDecide ==
    /\ rpc = "decide"
    /\ r_action' = check_video_frame(r_frame.pts, master_pts)
    /\ rpc' = "act"
    /\ UNCHANGED <<r_frame, pstate, flags, queues, threads, decoder,
                   master_pts, dvars, avars, cvars>>

\* VecDeque::pop_front
pop_front(q) == IF q = <<>> THEN q ELSE Tail(q)

\* Mutant: a frame displayed stays at the front of the queue.
MatchActionDisplayKeeps(action, queue) ==
    [queue |-> IF action = "Drop" THEN pop_front(queue) ELSE queue,
     renders |-> action = "Display",
     presents |-> action \in {"Display", "Repeat"},
     frames_rendered |-> IF action = "Display" THEN 1 ELSE 0,
     frames_dropped |-> IF action = "Drop" THEN 1 ELSE 0,
     continues |-> action \in {"Drop", "Wait"}]

\* Mutant: a frame waited for is taken from the queue.
MatchActionWaitPops(action, queue) ==
    [queue |-> IF action = "Repeat" THEN queue ELSE pop_front(queue),
     renders |-> action = "Display",
     presents |-> action \in {"Display", "Repeat"},
     frames_rendered |-> IF action = "Display" THEN 1 ELSE 0,
     frames_dropped |-> IF action = "Drop" THEN 1 ELSE 0,
     continues |-> action \in {"Drop", "Wait"}]

\* match action { .. }: Display pops the front of the queue, renders and
\* presents the frame it peeked and adds 1 to frames_rendered; Drop pops and
\* adds 1 to frames_dropped; Wait sleeps; Repeat presents again.  Drop and
\* Wait `continue` (continues), the others go on to the frame timing.
match_action(action, queue) ==
    [queue |-> IF action \in {"Display", "Drop"} THEN pop_front(queue) ELSE queue,
     renders |-> action = "Display",
     presents |-> action \in {"Display", "Repeat"},
     frames_rendered |-> IF action = "Display" THEN 1 ELSE 0,
     frames_dropped |-> IF action = "Drop" THEN 1 ELSE 0,
     continues |-> action \in {"Drop", "Wait"}]

RenAct ==
    /\ rpc = "act"
    /\ video_queue' = match_action(r_action, video_queue).queue
    /\ rpc' = "head"
    /\ r_frame' = NoFrame
    /\ r_action' = None
    /\ UNCHANGED <<pstate, flags, audio_queue, threads, decoder, master_pts,
                   dvars, avars, cvars>>

RenderThread == RenHead \/ RenPeek \/ RenDecide \/ RenAct

(***************************************************************************)
(* player/controller.rs: set_volume, toggle_mute and is_muted.  They touch *)
(* PlayerState.volume, PlayerState.muted and the audio output only;        *)
(* `audio_volume` is the argument of the last audio.set_volume call (the   *)
(* target of the output's VolumeControl, 1.0 before any call), `was` the   *)
(* one before it and `calls` the number of calls made.                     *)
(***************************************************************************)
\* PlayerState::default(): volume 0.7, not muted
PlayerVolumeNew ==
    [volume |-> Frac(7, 10), muted |-> FALSE, audio_volume |-> One,
     was |-> One, calls |-> 0, op |-> "new", arg |-> One]

\* PlayerController::set_volume(volume)
player_set_volume(p, volume) ==
    [p EXCEPT !.volume = Clamp(volume), !.audio_volume = Clamp(volume),
              !.was = p.audio_volume, !.calls = p.calls + 1,
              !.op = "set_volume", !.arg = volume]

\* PlayerController::toggle_mute()
toggle_mute(p) ==
    [p EXCEPT !.muted = ~p.muted,
              !.audio_volume = IF ~p.muted THEN Zero ELSE p.volume,
              !.was = p.audio_volume, !.calls = p.calls + 1,
              !.op = "toggle_mute", !.arg = Zero]

\* PlayerController::is_muted()
player_is_muted(p) == p.muted

PvFrame == UNCHANGED <<fqvars, ctlvars, sync, ren, ao, vc, vr, clk, vol>>

PlayerSetVolume ==
    /\ pv.calls < MaxVolumeCalls
    /\ \E volume \in Volumes : pv' = player_set_volume(pv, volume)
    /\ PvFrame

PlayerToggleMute ==
    /\ pv.calls < MaxVolumeCalls
    /\ pv' = toggle_mute(pv)
    /\ PvFrame

PlayerVolumeNext == PlayerSetVolume \/ PlayerToggleMute

(***************************************************************************)
(* player/controller.rs: render_thread_fn on its own, running and not      *)
(* paused, with its counters.  The queue holds the PTS of its frames; the  *)
(* decode thread pushes (RenPush), the audio thread moves the master clock *)
(* of the AVSyncController (UpdateAudio).                                  *)
(***************************************************************************)
RenderLoopNew ==
    [pc |-> "peek", queue |-> <<>>, frame |-> NoPts, action |-> None,
     decision |-> None, error |-> 0,
     frames_rendered |-> 0, frames_dropped |-> 0,
     rendered |-> NoPts, presents |-> 0, pushed |-> 0,
     op |-> "new"]

\* Frame PTS values that, against the master clock values SyncMasters, have
\* the sync errors at and next to every threshold of the decision:
\* 999 and 1000, 40000 and 40001 against 0; -999 and -1000, -40000 against
\* 40000; -40001 against 100000
RenderPts ==
    {0, SYNC_TARGET_US - 1, SYNC_TARGET_US,
     MAX_SYNC_DEVIATION_US - SYNC_TARGET_US,
     MAX_SYNC_DEVIATION_US - SYNC_TARGET_US + 1,
     MAX_SYNC_DEVIATION_US, MAX_SYNC_DEVIATION_US + 1,
     100000 - MAX_SYNC_DEVIATION_US - 1}

RenFrame == UNCHANGED <<fqvars, ctlvars, pv, ao, vc, vr, clk, vol>>

\* video_queue.lock().push_back(frame), by the decode thread
RenPush ==
    /\ ren.pushed < MaxRenderFrames
    /\ \E pts \in RenderPts :
          ren' = [ren EXCEPT !.queue = Append(@, pts),
                            !.pushed = @ + 1,
                            !.op = "push"]
    /\ UNCHANGED sync
    /\ RenFrame

\* the audio thread's update of the master clock
RenClock ==
    /\ UpdateAudioClock
    /\ UNCHANGED ren
    /\ RenFrame

\* av_sync.set_mode(mode), by the application
RenMode ==
    /\ SetSyncMode
    /\ UNCHANGED ren
    /\ RenFrame

\* video_queue.lock().front().cloned(); None: sleep 5 ms and continue
render_peek(r) ==
    IF r.queue = <<>>
    THEN [r EXCEPT !.op = "peek_none"]
    ELSE [r EXCEPT !.frame = Head(r.queue), !.pc = "decide", !.op = "peek"]

RenLoopPeek ==
    /\ ren.pc = "peek"
    /\ ren' = render_peek(ren)
    /\ UNCHANGED sync
    /\ RenFrame

\* av_sync.lock().check_video_frame(frame.pts); decision and error are
\* what should_display_frame returned and the sync error it found
RenLoopDecide ==
    /\ ren.pc = "decide"
    /\ sync' = display_frame(sync, ren.frame)
    /\ ren' = [ren EXCEPT
                  !.action = check_video_frame(ren.frame, sync.master_pts),
                  !.decision = should_display_frame(ren.frame, sync.master_pts),
                  !.error = ren.frame - sync.master_pts,
                  !.pc = "act",
                  !.op = "decide"]
    /\ RenFrame

\* match action { .. }, then the frame timing; the loop goes round
render_act(r) ==
    LET m == match_action(r.action, r.queue)
    IN [r EXCEPT
          !.queue = m.queue,
          !.rendered = IF m.renders THEN r.frame ELSE @,
          !.presents = IF m.presents THEN @ + 1 ELSE @,
          !.frames_rendered = @ + m.frames_rendered,
          !.frames_dropped = @ + m.frames_dropped,
          !.frame = NoPts,
          !.action = None,
          !.decision = None,
          !.error = 0,
          !.pc = "peek",
          !.op = "act"]

RenLoopAct ==
    /\ ren.pc = "act"
    /\ ren' = render_act(ren)
    /\ UNCHANGED sync
    /\ RenFrame

RenderLoopNext ==
    RenPush \/ RenClock \/ RenMode \/ RenLoopPeek \/ RenLoopDecide \/ RenLoopAct

(***************************************************************************)
(* player/controller.rs: the Player methods, called from one thread        *)
(* (&mut self).  Each step is one critical section or atomic store.        *)
(***************************************************************************)
SeekTargets == {0, FrameDuration}

\* The call in progress returns.
Return(result) ==
    /\ cpc' = "idle"
    /\ cres' = result
    /\ carg' = 0
    /\ UNCHANGED <<cmd, cfrom>>

Goto(step) ==
    /\ cpc' = step
    /\ UNCHANGED <<cmd, cres, carg, cfrom>>

\* no worker thread exists
WorkersGone ==
    /\ dpc = "none" /\ apc = "none" /\ rpc = "none"
    /\ \A w \in Workers : ~threads[w]

\* nothing is left of an earlier playback
CleanStopped ==
    /\ state = "Stopped" /\ position_us = 0
    /\ video_queue = <<>> /\ audio_queue = <<>>
    /\ ~running
    /\ WorkersGone

\* the player as a call finds it
CalledFrom ==
    IF CleanStopped THEN "clean"
    ELSE IF state = "Stopped" /\ WorkersGone THEN "stopped"
    ELSE "other"

\* A Player method is called.
Call(c, step, arg) ==
    /\ cpc = "idle"
    /\ cmd' = c
    /\ cpc' = step
    /\ cres' = None
    /\ carg' = arg
    /\ cfrom' = IF c = "stop" THEN CalledFrom
                ELSE IF c = "seek" THEN state
                ELSE None
    /\ UNCHANGED <<pstate, flags, queues, threads, decoder, master_pts,
                   dvars, avars, rvars>>

CallLoad == Call("load", "stop_state", 0)
CallPlay == Call("play", "play_check", 0)
CallPause == Call("pause", "pause_check", 0)
CallStop == Call("stop", "stop_state", 0)
CallSeek ==
    /\ decoder.epoch < MaxSeeks
    /\ \E position \in SeekTargets : Call("seek", "seek_state", position)

\* fn toggle_play: match state { Playing => self.pause(),
\* Paused | Stopped => self.play(), _ => Ok(()) }
CallToggle ==
    IF state = "Playing" THEN Call("pause", "pause_check", 0)
    ELSE IF state \in {"Paused", "Stopped"} THEN Call("play", "play_check", 0)
    ELSE /\ cpc = "idle"
         /\ cmd' = "toggle_play"
         /\ cres' = "ok"
         /\ carg' = 0
         /\ cfrom' = None
         /\ UNCHANGED <<cpc, pstate, flags, queues, threads, decoder,
                        master_pts, dvars, avars, rvars>>

\* ---- fn stop (also the first part of load_file) ----
StopState ==
    /\ cpc = "stop_state"
    /\ state' = "Stopped"
    /\ position_us' = 0
    /\ Goto("stop_flag")
    /\ UNCHANGED <<media_info, flags, queues, threads, decoder, master_pts,
                   dvars, avars, rvars>>

\* running.store(false); audio.stop()
StopFlag ==
    /\ cpc = "stop_flag"
    /\ running' = FALSE
    /\ Goto("stop_clear_video")
    /\ UNCHANGED <<paused, pstate, queues, threads, decoder, master_pts,
                   dvars, avars, rvars>>

\* Mutant: stop() leaves the video queue as it is.
StopKeepsVideo ==
    /\ cpc = "stop_clear_video"
    /\ Goto("stop_clear_audio")
    /\ UNCHANGED <<queues, pstate, flags, threads, decoder, master_pts,
                   dvars, avars, rvars>>

StopClearVideo ==
    /\ cpc = "stop_clear_video"
    /\ video_queue' = <<>>
    /\ Goto("stop_clear_audio")
    /\ UNCHANGED <<audio_queue, pstate, flags, threads, decoder, master_pts,
                   dvars, avars, rvars>>

StopClearAudio ==
    /\ cpc = "stop_clear_audio"
    /\ audio_queue' = <<>>
    /\ Goto("stop_join_decoder")
    /\ UNCHANGED <<video_queue, pstate, flags, threads, decoder, master_pts,
                   dvars, avars, rvars>>

\* Mutant: the handle is taken and dropped, the thread is not waited for.
JoinDetached(w, pc) == TRUE

\* if let Some(thread) = handle.take() { thread.join() }: blocks until the
\* thread has exited
Joinable(w, pc) == threads[w] => pc = "exited"

\* a thread that was joined is no more
AfterJoin(w, pc) == IF threads[w] /\ pc = "exited" THEN "none" ELSE pc

StopJoinDecoder ==
    /\ cpc = "stop_join_decoder"
    /\ Joinable("decoder", dpc)
    /\ dpc' = AfterJoin("decoder", dpc)
    /\ threads' = [threads EXCEPT !["decoder"] = FALSE]
    /\ Goto("stop_join_audio")
    /\ UNCHANGED <<d_vok, d_aok, pstate, flags, queues, decoder, master_pts,
                   avars, rvars>>

StopJoinAudio ==
    /\ cpc = "stop_join_audio"
    /\ Joinable("audio", apc)
    /\ apc' = AfterJoin("audio", apc)
    /\ threads' = [threads EXCEPT !["audio"] = FALSE]
    /\ Goto("stop_join_render")
    /\ UNCHANGED <<a_pts, pstate, flags, queues, decoder, master_pts,
                   dvars, rvars>>

\* the last join; stop() returns Ok, load_file goes on to open the file
StopJoinRender ==
    /\ cpc = "stop_join_render"
    /\ Joinable("render", rpc)
    /\ rpc' = AfterJoin("render", rpc)
    /\ threads' = [threads EXCEPT !["render"] = FALSE]
    /\ IF cmd = "load" THEN Goto("load_open") ELSE Return("ok")
    /\ UNCHANGED <<r_frame, r_action, pstate, flags, queues, decoder,
                   master_pts, dvars, avars>>

Stop == StopState \/ StopFlag \/ StopClearVideo \/ StopClearAudio
           \/ StopJoinDecoder \/ StopJoinAudio \/ StopJoinRender

\* ---- fn load_file, after its stop() ----
\* decoder.open_file(path)?: fails (load_file returns Err) or opens a media
LoadOpen(n) ==
    /\ cpc = "load_open"
    /\ \/ /\ Return("err")
          /\ UNCHANGED decoder
       \/ \E m \in Medias(n) :
            /\ decoder' = open_file(decoder, m)
            /\ Goto("load_state")
    /\ UNCHANGED <<pstate, flags, queues, threads, master_pts,
                   dvars, avars, rvars>>

\* media_info = Some(..), state = Stopped, position_us = 0; with an audio
\* stream audio.initialize(format)?, which may fail; config.auto_play is
\* true: play()
LoadState ==
    /\ cpc = "load_state"
    /\ media_info' = "Some"
    /\ state' = "Stopped"
    /\ position_us' = 0
    /\ \/ Goto("play_check")
       \/ decoder.audio /\ Return("err")
    /\ UNCHANGED <<flags, queues, threads, decoder, master_pts,
                   dvars, avars, rvars>>

Load(n) == LoadOpen(n) \/ LoadState

\* ---- fn play ----
\* Mutant: play() refuses to start without loaded media.
PlayRefusedNoMedia(current_state) == media_info = None

\* play() returns Err("No media loaded")
PlayRefused(current_state) == current_state = "Idle"

PlayCheck ==
    /\ cpc = "play_check"
    /\ IF state = "Playing" THEN Return("ok")
       ELSE IF PlayRefused(state) THEN Return("err")
       ELSE Goto("play_state")
    /\ UNCHANGED <<pstate, flags, queues, threads, decoder, master_pts,
                   dvars, avars, rvars>>

PlayState ==
    /\ cpc = "play_state"
    /\ state' = "Playing"
    /\ Goto("play_start")
    /\ UNCHANGED <<media_info, position_us, flags, queues, threads, decoder,
                   master_pts, dvars, avars, rvars>>

\* Mutant: a thread is spawned whether or not there is a handle.
SpawnedAlways(w, pc) == "head"

\* start_playback_threads: a thread is spawned only where the handle is None
Spawned(w, pc) == IF threads[w] THEN pc ELSE "head"

\* running.store(true); paused.store(false); start_playback_threads();
\* audio.resume(); Ok
PlayStart ==
    /\ cpc = "play_start"
    /\ running' = TRUE
    /\ paused' = FALSE
    /\ dpc' = Spawned("decoder", dpc)
    /\ apc' = Spawned("audio", apc)
    /\ rpc' = Spawned("render", rpc)
    /\ threads' = [w \in Workers |-> TRUE]
    /\ Return("ok")
    /\ UNCHANGED <<d_vok, d_aok, a_pts, r_frame, r_action, pstate, queues,
                   decoder, master_pts>>

Play == PlayCheck \/ PlayState \/ PlayStart

\* ---- fn pause ----
PauseCheck ==
    /\ cpc = "pause_check"
    /\ IF state # "Playing" THEN Return("ok") ELSE Goto("pause_state")
    /\ UNCHANGED <<pstate, flags, queues, threads, decoder, master_pts,
                   dvars, avars, rvars>>

PauseState ==
    /\ cpc = "pause_state"
    /\ state' = "Paused"
    /\ Goto("pause_flag")
    /\ UNCHANGED <<media_info, position_us, flags, queues, threads, decoder,
                   master_pts, dvars, avars, rvars>>

\* paused.store(true); audio.pause(); Ok
PauseFlag ==
    /\ cpc = "pause_flag"
    /\ paused' = TRUE
    /\ Return("ok")
    /\ UNCHANGED <<running, pstate, queues, threads, decoder, master_pts,
                   dvars, avars, rvars>>

Pause == PauseCheck \/ PauseState \/ PauseFlag

\* ---- fn seek ----
SeekState ==
    /\ cpc = "seek_state"
    /\ position_us' = carg
    /\ Goto("seek_clear_video")
    /\ UNCHANGED <<state, media_info, flags, queues, threads, decoder,
                   master_pts, dvars, avars, rvars>>

SeekClearVideo ==
    /\ cpc = "seek_clear_video"
    /\ video_queue' = <<>>
    /\ Goto("seek_clear_audio")
    /\ UNCHANGED <<audio_queue, pstate, flags, threads, decoder, master_pts,
                   dvars, avars, rvars>>

SeekClearAudio ==
    /\ cpc = "seek_clear_audio"
    /\ audio_queue' = <<>>
    /\ Goto("seek_decoder")
    /\ UNCHANGED <<video_queue, pstate, flags, threads, decoder, master_pts,
                   dvars, avars, rvars>>

\* decoder.lock().seek(position)?
SeekDecoder ==
    /\ cpc = "seek_decoder"
    /\ LET r == decoder_seek(decoder, carg)
       IN /\ decoder' = r.dec
          /\ IF r.res = "err" THEN Return("err") ELSE Goto("seek_sync")
    /\ UNCHANGED <<pstate, flags, queues, threads, master_pts,
                   dvars, avars, rvars>>

\* av_sync.lock().reset(); Ok
SeekSync ==
    /\ cpc = "seek_sync"
    /\ master_pts' = sync_reset(master_pts)
    /\ Return("ok")
    /\ UNCHANGED <<pstate, flags, queues, threads, decoder,
                   dvars, avars, rvars>>

Seek == SeekState \/ SeekClearVideo \/ SeekClearAudio \/ SeekDecoder \/ SeekSync

\* A Player method is called / the call in progress takes its next step.
CallBegin == CallLoad \/ CallPlay \/ CallPause \/ CallStop \/ CallSeek
\* (n: the length of the media files there are to load)
CallStep(n) == Stop \/ Load(n) \/ Play \/ Pause \/ Seek

\* PlayerController::new
CtlInit ==
    /\ state = "Idle"
    /\ media_info = None
    /\ position_us = 0
    /\ running = FALSE
    /\ paused = FALSE
    /\ video_queue = <<>>
    /\ audio_queue = <<>>
    /\ threads = [w \in Workers |-> FALSE]
    /\ decoder = NewDecoder
    /\ master_pts = 0
    /\ dpc = "none" /\ d_vok = FALSE /\ d_aok = FALSE
    /\ apc = "none" /\ a_pts = NoPts
    /\ rpc = "none" /\ r_frame = NoFrame /\ r_action = None
    /\ cpc = "idle" /\ cmd = "new" /\ cres = None /\ carg = 0 /\ cfrom = None

\* The steps of the controller leave the stand-alone FrameQueue alone.
CallerBegins == CallBegin /\ UNCHANGED <<fqvars, audiovars>>
CallerSteps(n) == CallStep(n) /\ UNCHANGED <<fqvars, audiovars>>
DecoderRuns == DecoderThread /\ UNCHANGED <<fqvars, audiovars>>
AudioRuns == AudioThread /\ UNCHANGED <<fqvars, audiovars>>
RenderRuns == RenderThread /\ UNCHANGED <<fqvars, audiovars>>

CtlNext ==
    \/ CallerBegins
    \/ CallerSteps(ShortFrames)
    \/ DecoderRuns
    \/ AudioRuns
    \/ RenderRuns

LifecycleBegins ==
    (CallLoad \/ CallPlay \/ CallPause \/ CallStop) /\ UNCHANGED <<fqvars, audiovars>>

LifecycleNext ==
    \/ LifecycleBegins
    \/ CallerSteps(FairFrames)
    \/ DecoderRuns
    \/ AudioRuns
    \/ RenderRuns

\* The calls of the playback controls: load_file, play, pause, stop and
\* toggle_play
ControlBegins ==
    (CallLoad \/ CallPlay \/ CallPause \/ CallStop \/ CallToggle)
        /\ UNCHANGED <<fqvars, audiovars>>

ControlNext ==
    \/ ControlBegins
    \/ CallerSteps(FairFrames)
    \/ DecoderRuns
    \/ AudioRuns
    \/ RenderRuns

\* The worker threads are scheduled; a call in progress runs on.
CtlFairness ==
    /\ WF_vars(CallerSteps(FairFrames))
    /\ WF_vars(DecoderRuns)
    /\ WF_vars(AudioRuns)
    /\ WF_vars(RenderRuns)

\* Playback with no pause, stop or seek: one load_file (which plays, auto_play
\* being the default) of a media of NumFrames frames, and the threads.
LoadOnce == cmd = "new" /\ CallLoad /\ UNCHANGED <<fqvars, audiovars>>

PlaybackNext ==
    \/ LoadOnce
    \/ CallerSteps(NumFrames)
    \/ DecoderRuns
    \/ AudioRuns
    \/ RenderRuns

PlaybackFairness ==
    /\ WF_vars(CallerSteps(NumFrames))
    /\ WF_vars(DecoderRuns)
    /\ WF_vars(AudioRuns)
    /\ WF_vars(RenderRuns)

\* The output after initialize(), in each state of PlaybackState: the
\* callback and the calls are taken as the code they are, whatever state
\* they find.  (From new() the output itself never leaves Stopped.)
AudioStatesInit ==
    /\ \E channels \in Channels, current_state \in PlaybackStates :
          ao = [ao_initialize(AudioOutputNew, channels) EXCEPT
                  !.state = current_state, !.was = current_state]
    /\ sync = SyncNew
    /\ ren = RenderLoopNew
    /\ vc = VolumeControlNew
    /\ vr = VolumeRampNew
    /\ clk = AudioClockNew
    /\ vol = VolumeControllerNew
    /\ pv = PlayerVolumeNew

InitAudioStates == FQInitFixed /\ CtlInit /\ AudioStatesInit

\* the audio components as constructed
AudioInit ==
    /\ sync = SyncNew
    /\ ren = RenderLoopNew
    /\ ao = AudioOutputNew
    /\ vc = VolumeControlNew
    /\ vr = VolumeRampNew
    /\ clk = AudioClockNew
    /\ vol = VolumeControllerNew
    /\ pv = PlayerVolumeNew

Init == FQInitFixed /\ CtlInit /\ AudioInit

\* A FrameQueue of any limits, beside a controller that is left alone
InitFQ == FQInit /\ CtlInit /\ AudioInit

\* PlayerController: every call, every interleaving with the workers
Spec == Init /\ [][CtlNext]_vars

\* The calls that start and stop the threads (load_file, play, pause, stop),
\* with the threads scheduled fairly
FairSpec == Init /\ [][LifecycleNext]_vars /\ CtlFairness

\* load_file, play, pause, stop and toggle_play, in every interleaving with
\* the threads
ControlSpec == Init /\ [][ControlNext]_vars

\* ... with fair threads and no call but load_file and play
PlaybackSpec == Init /\ [][PlaybackNext]_vars /\ PlaybackFairness

\* FrameQueue under every operation.
SpecFQ == InitFQ /\ [][FQNext]_vars

\* FrameQueue under push_frame alone (no pops), with the push history.
SpecFQPush == InitFQ /\ [][FQPushNext]_vars

\* FrameTimingController under every call
SpecFrameTiming == Init /\ [][FrameTimingNext]_vars

\* AVSyncController: audio clock updates and frame decisions
SpecSync == Init /\ [][SyncNext]_vars

\* render_thread_fn with the AVSyncController, frames of every sync error
RenderSpec == Init /\ [][RenderLoopNext]_vars

\* CpalAudioOutput: every call of the trait, interleaved with the callback
SpecAudioOutput == Init /\ [][AudioOutputNext]_vars

\* ... with the output found in any state of PlaybackState
SpecAudioStates == InitAudioStates /\ [][AudioStatesNext]_vars

\* PlayerController: set_volume and toggle_mute in any order
SpecPlayerVolume == Init /\ [][PlayerVolumeNext]_vars

\* VolumeControl, VolumeRamp, AudioClock, VolumeController: every call
SpecVolumeControl == Init /\ [][VolumeControlNext]_vars
SpecVolumeRamp == Init /\ [][VolumeRampNext]_vars
SpecAudioClock == Init /\ [][AudioClockNext]_vars
SpecVolumeController == Init /\ [][VolumeControllerNext]_vars

\* VolumeController: set_volume, set_ramp_duration_ms and the samples
\* that pass through apply_volume
SpecVolumeRamping == Init /\ [][VolumeRampingNext]_vars

(***************************************************************************)
(* PlayerController: stop, seek, pause, play and the worker threads        *)
(***************************************************************************)
StopSteps ==
    {"stop_state", "stop_flag", "stop_clear_video", "stop_clear_audio",
     "stop_join_decoder", "stop_join_audio", "stop_join_render"}

Returned(c) == cmd = c /\ cpc = "idle"
StopRunning == cmd = "stop" /\ cpc \in StopSteps
WorkerStep == DecoderRuns \/ AudioRuns \/ RenderRuns

\* C1: every stop() eventually returns; when it has returned the decode,
\* audio and render threads have terminated, and no worker takes a step
\* until the next call.
C1_StopJoinsWorkers ==
    /\ [](Returned("stop") => WorkersGone)
    /\ [][Returned("stop") => ~WorkerStep]_vars
    /\ (StopRunning ~> Returned("stop"))

\* stop() has returned after the threads had run and decoded
C1_Witness == Returned("stop") /\ decoder.cursor > 0 /\ WorkersGone

\* C2: when stop() has returned both queues are empty, the state is Stopped
\* and the position is 0.
C2_StopLeavesClean ==
    Returned("stop") =>
        /\ video_queue = <<>>
        /\ audio_queue = <<>>
        /\ state = "Stopped"
        /\ position_us = 0

Fresh(q) == \A i \in 1..Len(q) : q[i].epoch = decoder.epoch

\* C3: after seek(p) has returned Ok no queue holds a frame or batch decoded
\* before the seek, and the render thread is not about to render one.
C3_SeekDropsOldFrames ==
    (Returned("seek") /\ cres = "ok") =>
        /\ Fresh(video_queue)
        /\ Fresh(audio_queue)
        /\ (rpc = "act" /\ r_action = "Display") => r_frame.epoch = decoder.epoch

\* C4: once pause() has paused and returned, position() keeps its value
\* until the next call.
C4_PositionFrozenWhilePaused ==
    [][(Returned("pause") /\ paused /\ cpc' = "idle")
          => position_us' = position_us]_vars

\* C5: play() with no media loaded returns an error, starts no thread and
\* changes no state.
C5_PlayWithoutMediaFails ==
    (Returned("play") /\ media_info = None) =>
        /\ cres = "err"
        /\ ~running
        /\ state # "Playing"
        /\ \A w \in Workers : ~threads[w]

\* C6: a loaded media that plays with no pause, stop or seek, its threads
\* scheduled fairly, reaches the state Ended and its decode thread exits.
C6_PlaybackEnds ==
    (Returned("load") /\ cres = "ok") ~> (state = "Ended" /\ dpc = "exited")

(***************************************************************************)
(* Claims about FrameQueue                                                 *)
(***************************************************************************)
FQLen == Len(fq.frames)

\* C7: in every state reachable by push_frame (any PTS order, duplicates
\* allowed), pop_frame, drop_frames_before and clear, the queued frames are
\* in non-decreasing PTS order from front to back, so that successive pops
\* return non-decreasing PTS values.
C7_SortedByPts ==
    \A i, j \in 1..FQLen : i < j => fq.frames[i].pts <= fq.frames[j].pts

\* C7 witness: a queue that has been pushed to, popped from and evicted from
\* holds two frames of different PTS.
C7_Witness ==
    /\ FQLen >= 2
    /\ fq.frames[1].pts < fq.frames[FQLen].pts
    /\ fq.frames_consumed > 0
    /\ fq.frames_dropped > 0

\* C8 as stated: len() <= max_frames in every state, for any max_frames.
C8_LenWithinMaxFrames == FQLen <= fq.max_frames

\* C8 amended: for a queue configured with max_frames >= 1, len() <=
\* max_frames after every push_frame (and in every other state).
C8_LenWithinMaxFramesPositive == fq.max_frames >= 1 => FQLen <= fq.max_frames

\* C8 witness: a full queue whose push evicted a frame.
C8_Witness ==
    /\ fq.max_frames >= 1
    /\ FQLen = fq.max_frames
    /\ fq.frames_dropped > 0
    /\ fq.frames_added = fq.frames_dropped + FQLen

\* Number of frames pushed with a PTS above p.
RECURSIVE PushedAbove(_)
PushedAbove(p) ==
    IF p >= MaxPts THEN 0 ELSE fq_pushed[p + 1] + PushedAbove(p + 1)


\* How many frames of PTS p are among the k frames of highest PTS pushed.
TopCount(p, k) == Max(0, Min(fq_pushed[p], k - PushedAbove(p)))

HeldCount(p) == Cardinality({i \in 1..FQLen : fq.frames[i].pts = p})

HoldsHighest ==
    \A p \in PtsValues :
        HeldCount(p) = TopCount(p, Min(fq.frames_added, fq.max_frames))

C10_TotalWithinMaxSize == fq.total_size <= fq.max_size

\* C10 amended: after every push_frame of a frame whose own size is <=
\* max_size, total_size <= max_size; and pop_frame, drop_frames_before and
\* clear keep total_size <= max_size.
C10_TotalWithinMaxSizeAfterFittingPush ==
    [][/\ \A frame \in TestFrames :
            (fq' = push_frame(fq, frame) /\ estimate_frame_size(frame) <= fq.max_size)
                => fq'.total_size <= fq'.max_size
       /\ (fq'.frames_added = fq.frames_added /\ fq'.max_size = fq.max_size
                /\ fq.total_size <= fq.max_size)
                => fq'.total_size <= fq'.max_size]_vars

\* C10 witness: the byte limit alone (the queue is not full by count) made
\* push_frame evict, and the total is at the limit.
C10_Witness ==
    /\ fq.frames # <<>>
    /\ FQLen < fq.max_frames
    /\ fq.frames_dropped > 0
    /\ fq.frames_consumed = 0
    /\ fq.frames_added = fq.frames_dropped + FQLen
    /\ fq.total_size = fq.max_size

\* frames without its i-th element
Without(frames, i) == SubSeq(frames, 1, i - 1) \o SubSeq(frames, i + 1, Len(frames))

\* rest is what is left of frames after some were taken from its front
IsSuffix(rest, frames) ==
    /\ Len(rest) <= Len(frames)
    /\ rest = SubSeq(frames, Len(frames) - Len(rest) + 1, Len(frames))

\* C11: every push_frame call, on every queue state, completes with the
\* pushed frame in the queue; the other frames held are what remains of the
\* earlier content after evicting from the front (a full queue is never a
\* reason to refuse the frame).
C11_PushedFrameHeld ==
    [][\A p \in PtsValues :
          fq_pushed'[p] > fq_pushed[p] =>
              LET frame == [pts |-> p, size |-> fq_bytes' - fq_bytes]
              IN \E i \in 1..Len(fq'.frames) :
                    /\ fq'.frames[i] = frame
                    /\ IsSuffix(Without(fq'.frames, i), fq.frames)]_vars

\* C11 witness: pushes on a full queue have evicted, and the queue holds two
\* frames, the later pushed one in front.
C11_Witness ==
    /\ FQLen = 2
    /\ fq.max_frames = 2
    /\ fq.frames_dropped >= 1
    /\ ~fq_inorder


(***************************************************************************)
(* audio/sync.rs: the frame decision                                       *)
(***************************************************************************)
SyncError == sync.frame_pts - sync.master_pts

\* C12: a frame whose PTS is e = P - M away from the master clock is dropped
\* exactly when e < -40000, waited for exactly when e > 40000, displayed
\* exactly when |e| < 1000, and displayed with an adjustment of e in every
\* other case, e = -40000, e = 40000 and |e| = 1000 included.
C12_FrameDecision ==
    sync.action # None =>
        /\ sync.action = "Drop" <=> SyncError < -40000
        /\ sync.action = "Wait" <=> SyncError > 40000
        /\ sync.action = "Display" <=> Abs(SyncError) < 1000
        /\ sync.action = "DisplayWithAdjustment" <=>
              /\ SyncError >= -40000
              /\ SyncError <= 40000
              /\ Abs(SyncError) >= 1000
        /\ SyncError \in {-40000, 40000, -1000, 1000} =>
              sync.action = "DisplayWithAdjustment"

C12_Witness ==
    /\ sync.master_pts = 1000000
    /\ sync.frame_pts = 960000
    /\ sync.action = "DisplayWithAdjustment"

(***************************************************************************)
(* audio/cpal_output.rs: the output states and the ring buffer             *)
(***************************************************************************)
AoFill == FillReached(Len(ao.ring), ao.capacity)

\* C13: starting from Stopped, initialize() followed by play() puts the
\* output into Buffering, and a play() that leaves the ring buffer at least
\* 25% full moves it to Playing, so that is_playing() is true: when play()
\* has returned Ok the output is Buffering below that fill and Playing from
\* it on.
C13_PlayStartsPlayback ==
    (ao.op = "play" /\ ao.res = "Ok") =>
        /\ ~AoFill => ao.state = "Buffering"
        /\ AoFill => is_playing(ao)

\* C14: play() given a batch in the format of the output writes the first
\* `free` samples of the batch in their order (the whole batch when it
\* fits), discards the rest and returns Ok, and the ring buffer never holds
\* more than its capacity.
C14_PlayWritesWhatFits ==
    /\ [](Len(ao.ring) <= ao.capacity)
    /\ [][(ao'.op = "play" /\ ao.producer /\ ao.channels # 0
             /\ ao'.arg.channels = ao.channels) =>
            LET free == ao.capacity - Len(ao.ring)
                data == ao'.arg.data
            IN /\ ao'.res = "Ok"
               /\ Len(ao'.ring) = Len(ao.ring) + Min(free, Len(data))
               /\ \A i \in 1..Len(ao'.ring) :
                     ao'.ring[i] = IF i <= Len(ao.ring) THEN ao.ring[i]
                                   ELSE data[i - Len(ao.ring)]]_vars

C14_Witness ==
    /\ ao.op = "play" /\ ao.res = "Ok"
    /\ ao.arg.data = Batch(MaxSamples)
    /\ ao.capacity = RingSize
    /\ ao.ring = Batch(1) \o Batch(1)

Distance(x, y) == FracAbs(FracSub(x, y))

\* C16: once a whole ramp of samples has been processed since the last
\* set_target(t), the gain is exactly clamp(t, 0, 1) and stays there;
\* while samples are processed every gain is at least as close to the
\* target as the one before and never on the other side of it.
C16_RampReachesTarget ==
    /\ [](vc.processed = RampSamples => vc.current = Clamp(vc.requested))
    /\ [][vc'.processed # vc.processed /\ vc'.targets = vc.targets =>
            /\ FracLeq(Distance(vc'.current, vc.target),
                       Distance(vc.current, vc.target))
            /\ FracLeq(vc.current, vc.target) => FracLeq(vc'.current, vc.target)
            /\ FracLeq(vc.target, vc.current) => FracLeq(vc.target, vc'.current)]_vars

C16_Witness ==
    /\ vc.targets = MaxTargets
    /\ vc.requested = Frac(3, 2)
    /\ vc.processed = RampSamples
    /\ vc.current = One
    /\ vc.ramp_samples = 0

(***************************************************************************)
(* audio/volume.rs: the values of a ramp                                   *)
(***************************************************************************)
\* the ramp of test_volume_ramp: the default type, 10 samples long, given
\* the target 0.0 before its first value, and ten values taken
RampDown ==
    /\ vr.ramp_type = "Exponential"
    /\ vr.duration_samples = 10
    /\ vr.targets = 1 /\ vr.target = Zero /\ vr.current = One
    /\ Len(vr.values) = 10
    /\ vr.samples_processed = 10

\* C17: the first ten values of a default ramp of 10 samples from 1.0 to
\* 0.0 never increase, the first is greater than the tenth, and the tenth
\* is below 0.1.
C17_RampDownValues ==
    RampDown =>
        /\ \A i \in 1..9 : FracLeq(vr.values[i + 1], vr.values[i])
        /\ FracLess(vr.values[10], vr.values[1])
        /\ FracLess(vr.values[10], Frac(1, 10))

(***************************************************************************)
(* audio/cpal_output.rs: the position of the audio clock                   *)
(***************************************************************************)
\* floor(total * 1,000,000 / sample_rate), and 0 when sample_rate is 0
FloorMicros(total, sample_rate) ==
    IF sample_rate = 0 THEN Position(FALSE, <<>>)
    ELSE Position(FALSE, DivBytes(MulBytes(total, 1000000, 0), sample_rate).q)

\* C18: get_position() returns floor(samples_played * 1,000,000 /
\* sample_rate), and 0 when sample_rate is 0, where samples_played is the sum
\* of the arguments of update_samples since new() or the last reset(); 48000
\* samples at 48000 Hz give 1,000,000.
C18_PositionIsFloor ==
    clk.op = "get_position" =>
        /\ clk.position = FloorMicros(clk.total, clk.sample_rate)
        /\ (clk.total = Trim(Bytes(48000)) /\ clk.sample_rate = 48000) =>
              clk.position = Position(FALSE, Bytes(1000000))

(***************************************************************************)
(* player/controller.rs: stop() on a stopped player                        *)
(***************************************************************************)
\* C19: stop() called in the state Stopped with no worker thread leaves the
\* state Stopped, both queues empty and the position 0, and a stop() called
\* after that changes nothing of the player at any of its steps.
C19_StopWhenStopped ==
    /\ []((Returned("stop") /\ cfrom \in {"stopped", "clean"}) =>
            /\ state = "Stopped" /\ position_us = 0
            /\ video_queue = <<>> /\ audio_queue = <<>>
            /\ cres = "ok")
    /\ [][(StopRunning /\ cfrom = "clean") =>
            /\ UNCHANGED <<pstate, flags, queues, threads, decoder, master_pts>>
            /\ CleanStopped']_vars

\* a second stop() has returned, after playback
C19_Witness ==
    /\ Returned("stop") /\ cfrom = "clean"
    /\ decoder.cursor > 0

(***************************************************************************)
(* audio/volume.rs: volume and mute                                        *)
(***************************************************************************)
\* C20: when unmute() has returned is_muted() is false and get_volume() is
\* the volume last requested through set_volume, clamped to [0, 1], whether
\* it was requested before mute() or while muted.
C20_UnmuteRestoresRequest ==
    vol.op = "unmute" =>
        /\ ~is_muted(vol)
        /\ get_volume(vol) = Clamp(vol.requested)

(***************************************************************************)
(* PlayerController: the playback state machine                            *)
(***************************************************************************)
\* pause() or stop() has returned and no call has been made since
Halted == Returned("pause") \/ Returned("stop")

\* C21: the state becomes Ended only from Playing; once pause() or stop()
\* has returned it does not become Ended until a later play().
C21_EndedOnlyFromPlaying ==
    /\ [][(state' = "Ended" /\ state # "Ended") => state = "Playing"]_vars
    /\ [][(Halted /\ cpc' = "idle" /\ state # "Ended") => state' # "Ended"]_vars

\* the step in which the state becomes Ended
BecomesEnded == state' = "Ended" /\ state # "Ended"

\* C22: whenever the state becomes Ended the decoder is exhausted and both
\* the video queue and the audio queue are empty.
C22_EndedWithEmptyQueues ==
    [][BecomesEnded =>
          /\ decoder'.eof
          /\ video_queue' = <<>>
          /\ audio_queue' = <<>>]_vars

\* the steps of seek() after its first write: the queues are cleared, the
\* decoder is repositioned, the clocks are reset
SeekSteps == {"seek_clear_video", "seek_clear_audio", "seek_decoder", "seek_sync"}

\* C23: during seek() the state is Seeking; when seek() returns the state is
\* again the Playing or Paused state it had before the call.
C23_SeekingDuringSeek ==
    /\ []((cmd = "seek" /\ cpc \in SeekSteps) => state = "Seeking")
    /\ [][(cmd = "seek" /\ cpc # "idle" /\ cpc' = "idle" /\ cres' = "ok"
              /\ cfrom \in {"Playing", "Paused"})
             => state' = cfrom]_vars

\* C24: the video queue never holds more than its limit of frames (30 in
\* the code) and the audio queue never more than its limit of batches (100),
\* in every interleaving of the threads with the calls.
C24_QueuesWithinLimits ==
    /\ Len(video_queue) <= VideoMax
    /\ Len(audio_queue) <= AudioMax

\* both queues are at their limits while the decoder thread has passed its
\* size tests with room in both, after a seek has cleared the queues once
C24_Witness ==
    /\ Len(video_queue) = VideoMax
    /\ Len(audio_queue) = AudioMax
    /\ decoder.epoch > 0
    /\ dpc = "head"
    /\ state = "Playing"

\* where the thread of a kind is: "none" when no such thread exists
Pc(w) ==
    CASE w = "decoder" -> dpc
      [] w = "audio" -> apc
      [] w = "render" -> rpc

\* C25: at most one decode, one audio and one render thread exist at any
\* time: every thread that exists is held by the one handle of its kind, and
\* play() starts a thread only where none exists.
C25_OneThreadOfEachKind ==
    /\ [](\A w \in Workers : ~threads[w] => Pc(w) = "none")
    /\ [][(cpc = "play_start" /\ cpc' = "idle")
             => \A w \in Workers : Pc(w)' # Pc(w) => Pc(w) = "none"]_vars

\* play() has returned Ok with the threads of an earlier play() still there:
\* the decode thread had ended the stream, the others run on
C25_Witness ==
    /\ Returned("play") /\ cres = "ok"
    /\ \A w \in Workers : threads[w]
    /\ dpc = "exited"
    /\ apc \notin {"none", "exited"}
    /\ rpc \notin {"none", "exited"}
    /\ state = "Playing"

\* the thread of a kind has stopped, or there is none
Stopped(w) == Pc(w) \in {"none", "exited"}

\* C26: when play() has started the threads on a decoder whose every decode
\* call returns an error, then, unless another call is made, the state
\* becomes Error and the three threads stop.
C26_DecodeErrorsEndInError ==
    (Returned("play") /\ cres = "ok" /\ state = "Playing" /\ ~decoder.open)
        ~> \/ state = "Error" /\ \A w \in Workers : Stopped(w)
           \/ cpc # "idle"

(***************************************************************************)
(* The render loop and the AVSyncController                                *)
(***************************************************************************)
\* the render loop acts on the decision it has got
RenActs == ren.pc = "act" /\ ren'.pc = "peek"

\* the step takes the evaluated frame from the front of the queue, renders
\* and presents it and counts it in frames_rendered
DisplaysFrame ==
    /\ ren.queue # <<>>
    /\ Head(ren.queue) = ren.frame
    /\ ren'.queue = Tail(ren.queue)
    /\ ren'.rendered = ren.frame
    /\ ren'.presents = ren.presents + 1
    /\ ren'.frames_rendered = ren.frames_rendered + 1
    /\ ren'.frames_dropped = ren.frames_dropped

RenDecides == ren.pc = "decide" /\ ren'.pc = "act"

C29_RepeatNeverReached ==
    /\ [](/\ sync.action # "Repeat"
          /\ ren.decision # "Repeat"
          /\ ren.action # "Repeat"
          /\ ren.presents = ren.frames_rendered)
    /\ [][(ren.pc = "peek" /\ ren.queue = <<>> /\ ren'.queue = <<>>) =>
             /\ ren'.pc = "peek"
             /\ ren'.presents = ren.presents
             /\ ren'.rendered = ren.rendered
             /\ ren'.frames_rendered = ren.frames_rendered
             /\ ren'.frames_dropped = ren.frames_dropped]_vars

\* in a mode other than AudioMaster the loop has displayed the one frame it
\* was given and polls the empty queue
C29_Witness ==
    /\ ren.op = "peek_none"
    /\ ren.queue = <<>>
    /\ ren.presents = 1
    /\ sync.mode = "VideoMaster"
    /\ sync.op = "should_display_frame"
    /\ sync.action = "Display"

(***************************************************************************)
(* AVSyncController: the dropped-frame counter                             *)
(***************************************************************************)
\* should_display_frame is called
Decides == sync'.op = "should_display_frame" /\ sync' # sync

\* C30: should_display_frame adds exactly 1 to the dropped-frame counter
\* that get_stats() reports when it returns Drop, and leaves the counter as
\* it was when it returns Wait, Display or DisplayWithAdjustment.
C30_DropCounted ==
    [][Decides =>
          get_stats(sync').dropped_frames =
              get_stats(sync).dropped_frames
                  + (IF sync'.action = "Drop" THEN 1 ELSE 0)]_vars

\* one frame has been dropped and one displayed, and a frame has been waited
\* for since: the counter still reads 1
C30_Witness ==
    /\ sync.op = "should_display_frame"
    /\ sync.action = "Wait"
    /\ get_stats(sync).dropped_frames = 1
    /\ sync.stats_dropped = 1
    /\ sync.last_pts > 0

(***************************************************************************)
(* audio/cpal_output.rs: the callback and the state of the output          *)
(***************************************************************************)
\* the callback returns in this step
CallbackReturns == ao'.op = "callback" /\ ao.cb # None

\* the samples the device asks the callback for
SamplesNeeded == CallbackFrames * ao.callback_channels

\* C31: a callback that read the state Playing and finds fewer samples in
\* the ring buffer than it is asked for writes only zeros, takes no sample
\* from the ring buffer, adds exactly 1 to the underrun count and leaves the
\* state Buffering.
C31_UnderrunGoesBuffering ==
    [][(CallbackReturns /\ ao.cb = "Playing" /\ Len(ao.ring) < SamplesNeeded) =>
          /\ ao'.out = Zeros(SamplesNeeded)
          /\ ao'.ring = ao.ring
          /\ ao'.samples_played = ao.samples_played
          /\ ao'.underruns = ao.underruns + 1
          /\ ao'.state = "Buffering"]_vars

\* the second underrun in a row of a two-channel output, with one sample
\* waiting in the ring buffer
C31_Witness ==
    /\ ao.op = "callback" /\ ao.was = "Playing" /\ ao.state = "Buffering"
    /\ ao.underruns = MaxUnderruns
    /\ Len(ao.ring) = 1 /\ ao.out = Zeros(2)

\* C32: the state of the output goes from Buffering to Playing only in
\* play(), and only when the ring buffer is at least a quarter full after
\* the write; resume(), pause(), stop(), initialize() and the callback never
\* make that change.
C32_BufferingEndsInPlay ==
    [][(ao.state = "Buffering" /\ ao'.state = "Playing") =>
          /\ ao'.op = "play" /\ ao'.res = "Ok"
          /\ 4 * Len(ao'.ring) >= ao'.capacity]_vars

\* play() has started a Buffering output with the ring buffer exactly a
\* quarter full
C32_Witness ==
    /\ ao.op = "play" /\ ao.was = "Buffering" /\ ao.state = "Playing"
    /\ Len(ao.arg.data) = 1
    /\ 4 * Len(ao.ring) = ao.capacity

(***************************************************************************)
(* audio/cpal_output.rs: set_target and the progress of the ramp           *)
(***************************************************************************)
\* C33: VolumeControl::set_target starts the ramp again only when the new
\* target is more than 0.001 away from the current gain; a set_target
\* within 0.001 of the current gain leaves the count of samples the ramp
\* has left as it was.
C33_SetTargetKeepsRamp ==
    [][(vc'.targets = vc.targets + 1
          /\ FracLeq(Distance(vc'.target, vc.current), Frac(1, 1000))) =>
          vc'.ramp_samples = vc.ramp_samples]_vars

(***************************************************************************)
(* decoder/frame_queue.rs: the decision of FrameTimingController           *)
(***************************************************************************)
\* should_present_frame returns in this step
Presents == ftc'.op = "should_present_frame" /\ ftc'.calls = ftc.calls + 1

\* the call has anchored the controller on its frame
Anchors ==
    /\ ftc'.anchored
    /\ ftc'.last_present_time = ftc'.now
    /\ ftc'.last_pts = ftc'.pts

\* C34: should_present_frame on a controller that holds no last-presented
\* state (new, or reset) returns Present whatever the PTS and anchors the
\* last-presented time and PTS on the frame.  Every later call, with
\* expected = last_pts + elapsed_us * speed and diff = frame.pts - expected,
\* returns Wait(diff - frame_duration / 2) iff diff > frame_duration, Drop
\* iff diff < -50000 and Present otherwise, and only Present changes the
\* last-presented time and PTS.
C34_PresentDecision ==
    [][Presents =>
         IF ~ftc.anchored
         THEN ftc'.result = "Present" /\ Anchors
         ELSE LET diff == ftc'.pts - ExpectedPts(ftc, ftc'.now)
              IN /\ ftc'.result = "Wait" <=> diff > ftc.frame_duration
                 /\ ftc'.result = "Wait" =>
                       ftc'.wait = diff - ftc.frame_duration \div 2
                 /\ ftc'.result = "Drop" <=> diff < -50000
                 /\ ftc'.result \in {"Wait", "Drop", "Present"}
                 /\ ftc'.result = "Present" => Anchors
                 /\ ftc'.result # "Present" =>
                       /\ ftc'.last_present_time = ftc.last_present_time
                       /\ ftc'.last_pts = ftc.last_pts]_vars

(***************************************************************************)
(* player/controller.rs: the frame the render thread takes off the queue   *)
(***************************************************************************)
\* the render thread runs the arm of its match in this step
RenderActs == rpc = "act" /\ rpc' = "head"

\* C35: the frame the render thread removes from the video queue on Display
\* or Drop is the frame whose PTS it gave to the sync decision, whatever
\* seek(), stop() and the decode thread did between its peek, its decision
\* and its pop.
C35_PopsTheFrameDecided ==
    [][(RenderActs /\ r_action \in {"Display", "Drop"}
          /\ video_queue' # video_queue) =>
          Head(video_queue) = r_frame]_vars

C37_PlayingHasThreads ==
    (Returned("play") /\ state = "Playing") => \A w \in Workers : ~Stopped(w)

(***************************************************************************)
(* player/controller.rs: the volume of a muted player                      *)
(***************************************************************************)
\* C38: whenever is_muted() is true, the volume last given to the audio
\* output is 0, after any sequence of toggle_mute and set_volume calls.
C38_MutedIsSilent ==
    player_is_muted(pv) => pv.audio_volume = Zero

(***************************************************************************)
(* audio/volume.rs: where the ramp of the VolumeController ends            *)
(***************************************************************************)
\* C39: after any sequence of set_volume calls, also one made while an
\* earlier ramp is under way, and more than duration_samples samples
\* processed since, the gain that next_value returns is the volume set
\* last.
C39_RampEndsAtLastVolume ==
    (vol.op = "apply_volume" /\ vol.since > vol.ramp.duration_samples) =>
        vol.gain = Clamp(vol.requested)

(***************************************************************************)
(* decoder/frame_queue.rs: the statistics of the FrameQueue                *)
(***************************************************************************)
\* C40: after any sequence of push_frame, pop_frame, drop_frames_before and
\* clear, every frame added is either still in the queue or counted as
\* consumed or as dropped: frames_added = frames_consumed + frames_dropped
\* + len().
C40_StatsAccountForFrames ==
    fq.frames_added = fq.frames_consumed + fq.frames_dropped + Len(fq.frames)

====
